---- MODULE Spec2Model ----
(***************************************************************************)
(* Model of the planner/logger merge of CosynPa/planner-logger:            *)
(* ContinuingLogItem, TwoStagePlanItem and PlannerLoggerController         *)
(* (src/planner_logger.py), LogItem (src/logger.py) and the duration       *)
(* codec (src/time_helper.py).                                             *)
(*                                                                         *)
(* Objects.  A TwoStagePlanItem is a mutable object that several entries   *)
(* may reference, so plans live in a heap `plans` (a sequence of plan      *)
(* records, the position is the object's identity) and an entry holds the  *)
(* positions of its plan and backup_plan.  An entry of the list is         *)
(* identified by its position in the list (1-based); previous_log and      *)
(* next_log hold a position, 0 is None.  copy.deepcopy of the list is the  *)
(* pair (logs, plans): it keeps the sharing inside the copy and shares     *)
(* nothing with the original.                                              *)
(*                                                                         *)
(* Texts.  Names are atomic strings (only == is applied to them).  A       *)
(* duration text is a sequence of one-character strings, parsed by         *)
(* parse_duration as the code parses it.  A time text is the number of     *)
(* minutes since midnight of the "HH:MM" it spells, NoText is "" and       *)
(* BadText is a text strptime rejects.                                     *)
(***************************************************************************)
EXTENDS Integers, Sequences, FiniteSets, TLC

VARIABLES logs, plans, previous_logs, undo_stack, redo_stack,
          continue_after_break, break_text, file, pass_ran, presses,
          load_error,
          counters, callbacks, timeouts, clock, called, executed,
          given_seconds, duration_text, parsed, shown,
          bonus_formula,
          heap, live, undo_objects, redo_objects,
          boxes, update_queue, feedback,
          undo_button, redo_button,
          suspend_summary_update, suspend_link_update, summary_runs

vars == <<logs, plans, previous_logs, undo_stack, redo_stack,
          continue_after_break, break_text, file, pass_ran, presses,
          load_error,
          counters, callbacks, timeouts, clock, called, executed,
          given_seconds, duration_text, parsed, shown,
          bonus_formula,
          heap, live, undo_objects, redo_objects,
          boxes, update_queue, feedback,
          undo_button, redo_button,
          suspend_summary_update, suspend_link_update, summary_runs>>

(* The state of the controller, and the state of the debounced functions
   and of the event loop that runs their timers *)
controller_vars == <<logs, plans, previous_logs, undo_stack, redo_stack,
                     continue_after_break, break_text, file, pass_ran,
                     presses, load_error, undo_button, redo_button>>
ioloop_vars == <<counters, callbacks, timeouts, clock, called, executed>>

(* A duration on its way through the codec of time_helper.py: the number
   given to duration_str, the text given to parse_duration, the result of
   parse_duration (<<>> before the call, <<r>> after it), and whether the
   text is the one duration_str made of the number *)
codec_vars == <<given_seconds, duration_text, parsed, shown>>

(* The text of the bonus formula field, as its tokens *)
bonus_vars == <<bonus_formula>>

(* The objects behind the lists, by address: the plan objects of the
   process (heap), and the entries of the live list and of the snapshots on
   the undo and redo stacks, whose plan and backup_plan are addresses in
   heap *)
object_vars == <<heap, live, undo_objects, redo_objects>>

(* The widgets of the item boxes (one box per entry of the live list), the
   boxes whose update() is still to run in the handler at work, and whether
   the body of a change handler ever ran because update() wrote a widget *)
box_vars == <<boxes, update_queue, feedback>>

(* The two flags that suspend update_link and update_summary_and_save, and
   the number of times the last handler ran update_summary_and_save past
   its guard *)
suspend_vars == <<suspend_summary_update, suspend_link_update, summary_runs>>

view_vars == <<heap, live, undo_objects, redo_objects, boxes, update_queue, feedback,
               suspend_summary_update, suspend_link_update, summary_runs>>

----------------------------------------------------------------------------
(* Bounds of the model *)

MaxLogs == 3
MaxUndo == 2
MaxArchive == 2

(* Program constants *)

ArchiveLimit == 1000
DaySeconds == 86400
HourSeconds == 3600
MinuteSeconds == 60

----------------------------------------------------------------------------
(* Optional values: None is <<>>, a present value v is <<v>> *)

None == <<>>
Some(v) == <<v>>

Max(S) == CHOOSE x \in S : \A y \in S : y <= x
Min(S) == CHOOSE x \in S : \A y \in S : x <= y

RECURSIVE SumOver(_, _)
SumOver(S, f) ==
    IF S = {} THEN 0
    ELSE LET x == CHOOSE y \in S : TRUE IN f[x] + SumOver(S \ {x}, f)

----------------------------------------------------------------------------
(* time_helper.py: the duration codec *)

Digits == <<"0", "1", "2", "3", "4", "5", "6", "7", "8", "9">>
IsDigit(c) == \E k \in 1..10 : Digits[k] = c
DigitValue(c) == (CHOOSE k \in 1..10 : Digits[k] = c) - 1

RECURSIVE DigitsValue(_)
DigitsValue(s) ==
    IF s = <<>> THEN 0
    ELSE 10 * DigitsValue(SubSeq(s, 1, Len(s) - 1)) + DigitValue(s[Len(s)])

(* float(s) on texts made of digits and "-": a digit string with an optional
   leading sign is a number, anything else raises ValueError (None) *)
float(s) ==
    LET body == IF s # <<>> /\ s[1] = "-" THEN SubSeq(s, 2, Len(s)) ELSE s
    IN IF body # <<>> /\ \A k \in 1..Len(body) : IsDigit(body[k])
       THEN Some(IF body = s THEN DigitsValue(body) ELSE 0 - DigitsValue(body))
       ELSE None

(* s.split(c): the number of parts, the first part and the last part *)
SplitPositions(s, c) == {k \in 1..Len(s) : s[k] = c}
SplitLen(s, c) == Cardinality(SplitPositions(s, c)) + 1
SplitFirst(s, c) ==
    IF SplitPositions(s, c) = {} THEN s
    ELSE SubSeq(s, 1, Min(SplitPositions(s, c)) - 1)
SplitLast(s, c) ==
    IF SplitPositions(s, c) = {} THEN s
    ELSE SubSeq(s, Max(SplitPositions(s, c)) + 1, Len(s))

OrZero(o) == IF o = None THEN 0 ELSE o[1]

(* Mutant: a number without the "m" suffix is not taken for the minutes *)
parse_duration_suffix_required(time_string) ==
    LET negative == Len(time_string) >= 1 /\ time_string[1] = "-"
        positive_part == IF negative THEN SubSeq(time_string, 2, Len(time_string))
                         ELSE time_string
        day_number == IF SplitLen(positive_part, "d") = 2
                      THEN float(SplitFirst(positive_part, "d")) ELSE None
        hours == SplitLast(positive_part, "d")
        hour_number == IF SplitLen(hours, "h") = 2
                       THEN float(SplitFirst(hours, "h")) ELSE None
        minutes == SplitLast(hours, "h")
        minute_number == IF SplitLen(minutes, "m") = 2
                         THEN float(SplitFirst(minutes, "m")) ELSE None
        magnitude == OrZero(day_number) * DaySeconds + OrZero(hour_number) * HourSeconds
                     + OrZero(minute_number) * MinuteSeconds
    IN IF day_number = None /\ hour_number = None /\ minute_number = None
       THEN None
       ELSE Some(IF negative THEN 0 - magnitude ELSE magnitude)
parse_duration(time_string) ==
    LET negative == Len(time_string) >= 1 /\ time_string[1] = "-"
        positive_part == IF negative THEN SubSeq(time_string, 2, Len(time_string))
                         ELSE time_string
        day_number == IF SplitLen(positive_part, "d") = 2
                      THEN float(SplitFirst(positive_part, "d")) ELSE None
        hours == SplitLast(positive_part, "d")
        hour_number == IF SplitLen(hours, "h") = 2
                       THEN float(SplitFirst(hours, "h")) ELSE None
        minutes == SplitLast(hours, "h")
        minute_number == IF SplitLen(minutes, "m") \in {1, 2}
                         THEN float(SplitFirst(minutes, "m")) ELSE None
        magnitude == OrZero(day_number) * DaySeconds + OrZero(hour_number) * HourSeconds
                     + OrZero(minute_number) * MinuteSeconds
    IN IF day_number = None /\ hour_number = None /\ minute_number = None
       THEN None
       ELSE Some(IF negative THEN 0 - magnitude ELSE magnitude)

(* "{:d}".format(n) for n >= 0 *)
RECURSIVE format_d(_)
format_d(n) ==
    IF n < 10 THEN <<Digits[n + 1]>>
    ELSE Append(format_d(n \div 10), Digits[(n % 10) + 1])

positive_time(positive_seconds) ==
    LET days == positive_seconds \div DaySeconds
        left_of_day == positive_seconds % DaySeconds
        hours == left_of_day \div HourSeconds
        left_of_hour == left_of_day % HourSeconds
        minutes == left_of_hour \div MinuteSeconds
    IN IF days # 0
       THEN format_d(days) \o <<"d">> \o format_d(hours) \o <<"h">> \o format_d(minutes)
       ELSE IF hours # 0
       THEN format_d(hours) \o <<"h">> \o format_d(minutes)
       ELSE format_d(minutes)

duration_str(seconds) ==
    IF seconds >= 0 THEN positive_time(seconds)
    ELSE <<"-">> \o positive_time(0 - seconds)

(* Time texts *)
NoText == 0 - 1
BadText == 0 - 2

parse_time(time_string) ==
    IF time_string >= 0 /\ time_string < 24 * 60 THEN Some(time_string) ELSE None

time_str(time) == IF time = None THEN NoText ELSE time[1]

time_diff(time1, time2) == (time1 - time2) * MinuteSeconds

----------------------------------------------------------------------------
(* planner_logger.py: TwoStagePlanItem and ContinuingLogItem *)

TwoStagePlanItem(first_duration, last_duration, is_marked, is_mark_set) ==
    [first_duration |-> first_duration, last_duration |-> last_duration,
     is_marked |-> is_marked, is_mark_set |-> is_mark_set]

DefaultPlan == TwoStagePlanItem(<<>>, <<>>, FALSE, FALSE)

(* The entry built by the constructor around the plan object plan_id; the
   backup_plan is that same object *)
ContinuingLogItem(name, start_str, end_str, index, plan_id, is_continued) ==
    [name |-> name, start_str |-> start_str, end_str |-> end_str,
     index |-> index, is_continued |-> is_continued,
     previous_log |-> 0, next_log |-> 0,
     plan |-> plan_id, backup_plan |-> plan_id]

start(log) == parse_time(log.start_str)
end(log) == parse_time(log.end_str)

(* Mutant: an end before the start gives the negative difference *)
duration_without_wrap(log) ==
    IF start(log) # None /\ end(log) # None
    THEN time_diff(end(log)[1], start(log)[1])
    ELSE 0

duration(log) ==
    IF start(log) # None /\ end(log) # None
    THEN LET d == time_diff(end(log)[1], start(log)[1])
         IN IF d >= 0 THEN d ELSE d + DaySeconds
    ELSE 0

(* A state of the object graph: st.logs is the list, st.plans the heap *)
State(ls, ps) == [logs |-> ls, plans |-> ps]

(* Mutant: leaving a chain creates a new default plan instead of restoring
   the backup *)
set_is_continued_recreate(st, i, new_value) ==
    LET log == st.logs[i]
        old_value == log.is_continued
        fresh == Len(st.plans) + 1
    IN IF ~old_value /\ new_value
       THEN State([st.logs EXCEPT ![i].is_continued = TRUE, ![i].backup_plan = fresh],
                  Append(st.plans, st.plans[log.plan]))
       ELSE IF old_value /\ ~new_value
       THEN State([st.logs EXCEPT ![i].is_continued = FALSE, ![i].plan = fresh],
                  Append(st.plans, DefaultPlan))
       ELSE st

(* The is_continued setter: joining backs the plan up in a copy, leaving
   replaces the plan by a copy of the backup *)
set_is_continued(st, i, new_value) ==
    LET log == st.logs[i]
        old_value == log.is_continued
        fresh == Len(st.plans) + 1
    IN IF ~old_value /\ new_value
       THEN State([st.logs EXCEPT ![i].is_continued = TRUE, ![i].backup_plan = fresh],
                  Append(st.plans, st.plans[log.plan]))
       ELSE IF old_value /\ ~new_value
       THEN State([st.logs EXCEPT ![i].is_continued = FALSE, ![i].plan = fresh],
                  Append(st.plans, st.plans[log.backup_plan]))
       ELSE st

(* Mutant: only the entry itself and the entry right before it are summed *)
total_duration_one_back(ls, i) ==
    duration(ls[i]) + (IF ls[i].previous_log = 0 THEN 0
                       ELSE duration(ls[ls[i].previous_log]))

RECURSIVE total_duration(_, _)
total_duration(ls, i) ==
    duration(ls[i]) + (IF ls[i].previous_log = 0 THEN 0
                       ELSE total_duration(ls, ls[i].previous_log))

RECURSIVE tail(_, _)
tail(ls, i) == IF ls[i].next_log = 0 THEN i ELSE tail(ls, ls[i].next_log)

(* Mutant: the differences are taken from the entry's own total, not from
   the total of the tail *)
time_diffs_own_total(st, i) ==
    LET first_duration == parse_duration(st.plans[st.logs[i].plan].first_duration)
        last_duration == parse_duration(st.plans[st.logs[i].plan].last_duration)
        t == st.logs[tail(st.logs, i)]
        time_diff_last ==
            IF start(t) # None /\ end(t) # None /\ last_duration # None
            THEN Some(last_duration[1] - total_duration(st.logs, i))
            ELSE None
        time_diff_first ==
            IF start(t) # None /\ end(t) # None /\ first_duration # None
            THEN Some(first_duration[1] - total_duration(st.logs, i))
            ELSE None
    IN <<time_diff_first, time_diff_last>>

time_diffs(st, i) ==
    LET first_duration == parse_duration(st.plans[st.logs[i].plan].first_duration)
        last_duration == parse_duration(st.plans[st.logs[i].plan].last_duration)
        t == st.logs[tail(st.logs, i)]
        time_diff_last ==
            IF start(t) # None /\ end(t) # None /\ last_duration # None
            THEN Some(last_duration[1] - total_duration(st.logs, tail(st.logs, i)))
            ELSE None
        time_diff_first ==
            IF start(t) # None /\ end(t) # None /\ first_duration # None
            THEN Some(first_duration[1] - total_duration(st.logs, tail(st.logs, i)))
            ELSE None
    IN <<time_diff_first, time_diff_last>>

effective_duration(st, i) ==
    LET last_duration == parse_duration(st.plans[st.logs[i].plan].last_duration)
    IN IF last_duration # None THEN last_duration[1] ELSE total_duration(st.logs, i)

is_head(log) == log.next_log # 0 /\ log.previous_log = 0

is_in_list(log) == log.next_log # 0 \/ log.previous_log # 0

(* Mutant: only previous_log is cleared, next_log is left from the pass
   before *)
clear_link_state_previous_only(st, i) == [st EXCEPT !.logs[i].previous_log = 0]

(* Mutant: the links of the previous pass are not cleared *)
clear_link_state_keep(st, i) == st

clear_link_state(st, i) ==
    [st EXCEPT !.logs[i].previous_log = 0, !.logs[i].next_log = 0]

(* Mutant: the entry's next_log is set to the entry it is inserted after *)
insert_to_linked_list_cycle(st, i, after_item) ==
    LET s1 == set_is_continued(st, i, TRUE)
        next_item == s1.logs[after_item].next_log
        ls1 == [s1.logs EXCEPT ![i].previous_log = after_item,
                               ![i].next_log = after_item,
                               ![after_item].next_log = i]
        ls2 == IF next_item # 0 THEN [ls1 EXCEPT ![next_item].previous_log = i] ELSE ls1
    IN State(ls2, s1.plans)

insert_to_linked_list(st, i, after_item) ==
    LET s1 == set_is_continued(st, i, TRUE)
        next_item == s1.logs[after_item].next_log
        ls1 == [s1.logs EXCEPT ![i].previous_log = after_item,
                               ![i].next_log = next_item,
                               ![after_item].next_log = i]
        ls2 == IF next_item # 0 THEN [ls1 EXCEPT ![next_item].previous_log = i] ELSE ls1
    IN State(ls2, s1.plans)

----------------------------------------------------------------------------
(* planner_logger.py: PlannerLoggerController, the reconciliation pass *)

(* Mutant: names are compared without regard to case *)
lower(name) == IF name = "X" THEN "x" ELSE IF name = "Y" THEN "y" ELSE name
same_name_logs_ignoring_case(ls, i) ==
    {j \in 1..(i - 1) : lower(ls[j].name) = lower(ls[i].name)}

(* The entries of the list before position i that have the name of entry i *)
same_name_logs(ls, i) == {j \in 1..(i - 1) : ls[j].name = ls[i].name}

(* The entries of the archive that have the name of entry i *)
same_name_logs_in_previous(ls, i, prev) ==
    {j \in 1..Len(prev) : prev[j].name = ls[i].name}

(* Mutant: the mark is inherited from the first entry of the same name, not
   from the nearest one *)
inherited_mark_first(st, i, prev) ==
    IF same_name_logs(st.logs, i) # {}
    THEN st.plans[st.logs[Min(same_name_logs(st.logs, i))].plan].is_marked
    ELSE IF same_name_logs_in_previous(st.logs, i, prev) # {}
    THEN prev[Min(same_name_logs_in_previous(st.logs, i, prev))].plan.is_marked
    ELSE FALSE

(* The value an entry without a manual mark inherits *)
inherited_mark(st, i, prev) ==
    IF same_name_logs(st.logs, i) # {}
    THEN st.plans[st.logs[Max(same_name_logs(st.logs, i))].plan].is_marked
    ELSE IF same_name_logs_in_previous(st.logs, i, prev) # {}
    THEN prev[Min(same_name_logs_in_previous(st.logs, i, prev))].plan.is_marked
    ELSE FALSE

(* Mutant: a continued entry is linked but keeps its own plan *)
update_link_step_own_plan(st, i, prev) ==
    LET s0 == clear_link_state(st, i)
        same == same_name_logs(s0.logs, i)
    IN IF same # {} /\ s0.logs[i].is_continued
       THEN insert_to_linked_list(s0, i, Max(same))
       ELSE LET s1 == set_is_continued(s0, i, FALSE)
                p == s1.logs[i].plan
            IN IF ~s1.plans[p].is_mark_set
               THEN [s1 EXCEPT !.plans[p].is_marked = inherited_mark(s1, i, prev)]
               ELSE s1

(* Mutant: an inherited mark counts as a manual one *)
update_link_step_inherit_sets(st, i, prev) ==
    LET s0 == clear_link_state(st, i)
        same == same_name_logs(s0.logs, i)
    IN IF same # {} /\ s0.logs[i].is_continued
       THEN LET s1 == insert_to_linked_list(s0, i, Max(same))
            IN [s1 EXCEPT !.logs[i].plan = s1.logs[Max(same)].plan]
       ELSE LET s1 == set_is_continued(s0, i, FALSE)
                p == s1.logs[i].plan
            IN IF ~s1.plans[p].is_mark_set
               THEN [s1 EXCEPT !.plans[p].is_marked = inherited_mark(s1, i, prev),
                               !.plans[p].is_mark_set = TRUE]
               ELSE s1

(* One iteration of the loop of update_link, for the entry at position i *)
(* Mutant: a continued entry is inserted after the first entry of its name,
   not after the nearest one *)
update_link_step_after_first(st, i, prev) ==
    LET s0 == clear_link_state(st, i)
        same == same_name_logs(s0.logs, i)
    IN IF same # {} /\ s0.logs[i].is_continued
       THEN LET s1 == insert_to_linked_list(s0, i, Min(same))
            IN [s1 EXCEPT !.logs[i].plan = s1.logs[Min(same)].plan]
       ELSE LET s1 == set_is_continued(s0, i, FALSE)
                p == s1.logs[i].plan
            IN IF ~s1.plans[p].is_mark_set
               THEN [s1 EXCEPT !.plans[p].is_marked = inherited_mark(s1, i, prev)]
               ELSE s1

update_link_step(st, i, prev) ==
    LET s0 == clear_link_state(st, i)
        same == same_name_logs(s0.logs, i)
    IN IF same # {} /\ s0.logs[i].is_continued
       THEN LET s1 == insert_to_linked_list(s0, i, Max(same))
            IN [s1 EXCEPT !.logs[i].plan = s1.logs[Max(same)].plan]
       ELSE LET s1 == set_is_continued(s0, i, FALSE)
                p == s1.logs[i].plan
            IN IF ~s1.plans[p].is_mark_set
               THEN [s1 EXCEPT !.plans[p].is_marked = inherited_mark(s1, i, prev)]
               ELSE s1

RECURSIVE update_link_from(_, _, _)
update_link_from(st, i, prev) ==
    IF i > Len(st.logs) THEN st
    ELSE update_link_from(update_link_step(st, i, prev), i + 1, prev)

update_link(st, prev) == update_link_from(st, 1, prev)

----------------------------------------------------------------------------
(* Object identity.  Plans no entry references are garbage; the plans kept
   are numbered in the order the entries reference them (plan, then
   backup_plan, entry by entry), so two object graphs that differ only in
   the addresses of their plans are the same state. *)

PlanRefs(ls) ==
    [k \in 1..(2 * Len(ls)) |->
        IF k % 2 = 1 THEN ls[(k + 1) \div 2].plan ELSE ls[k \div 2].backup_plan]

(* The distinct elements of rs in the order of their first occurrence *)
RECURSIVE FirstRefs(_, _, _)
FirstRefs(rs, k, seen) ==
    IF k > Len(rs) THEN seen
    ELSE FirstRefs(rs, k + 1,
                   IF \E j \in 1..Len(seen) : seen[j] = rs[k] THEN seen
                   ELSE Append(seen, rs[k]))

Normalize(st) ==
    LET order == FirstRefs(PlanRefs(st.logs), 1, <<>>)
        new_id == [p \in 1..Len(st.plans) |->
                      IF \E k \in 1..Len(order) : order[k] = p
                      THEN CHOOSE k \in 1..Len(order) : order[k] = p ELSE 0]
    IN State([i \in 1..Len(st.logs) |->
                 [st.logs[i] EXCEPT !.plan = new_id[st.logs[i].plan],
                                    !.backup_plan = new_id[st.logs[i].backup_plan]]],
             [n \in 1..Len(order) |-> st.plans[order[n]]])

(* copy.deepcopy(self.logs) *)
deepcopy(ls, ps) == Normalize(State(ls, ps))

----------------------------------------------------------------------------
(* Persistence: the document save() writes *)

log_dic(ls, ps, i) ==
    [name |-> ls[i].name, start_str |-> ls[i].start_str, end_str |-> ls[i].end_str,
     index |-> ls[i].index, is_continued |-> ls[i].is_continued,
     plan |-> ps[ls[i].plan]]

save(ls, ps, prev, cab, title) ==
    [logs |-> [i \in 1..Len(ls) |-> log_dic(ls, ps, i)],
     previous_logs |-> prev,
     continue_after_break |-> cab,
     break_title |-> title]

(* Mutant: the is_continued flag of the document is not read *)
parse_logs_not_continued(dics) ==
    State([i \in 1..Len(dics) |->
              ContinuingLogItem(dics[i].name, dics[i].start_str, dics[i].end_str,
                                dics[i].index, i, FALSE)],
          [i \in 1..Len(dics) |-> dics[i].plan])

(* The list parse_log builds from the "logs" array of a document: every
   entry gets a plan object of its own *)
parse_logs(dics) ==
    State([i \in 1..Len(dics) |->
              ContinuingLogItem(dics[i].name, dics[i].start_str, dics[i].end_str,
                                dics[i].index, i, dics[i].is_continued)],
          [i \in 1..Len(dics) |-> dics[i].plan])

----------------------------------------------------------------------------
(* The handlers of PlannerLoggerController and PlannerLoggerItemBox.  One
   action is one handler run to completion (the event loop runs one callback
   at a time).  pass_ran tells whether the handler that changed the list last ended with a
   reconciliation pass (update_link). *)

Live == State(logs, plans)

(* The handler leaves the object graph st behind *)
Commit(st) ==
    LET n == Normalize(st) IN logs' = n.logs /\ plans' = n.plans

(* update_summary_and_save: save() writes the document of the new state *)
Save == file' = save(logs', plans', previous_logs', continue_after_break', break_text')

Positions == 1..Len(logs)

(* A button as update_undo_redo leaves it for a stack *)
button(stack) == [disabled |-> Len(stack) = 0]

(* update_undo_redo(), called when the stacks are us and rs *)
update_undo_redo(us, rs) ==
    /\ undo_button' = button(us)
    /\ redo_button' = button(rs)

(* Mutant: the redo stack is kept whatever clear_redo says *)
register_undo_keep_redo(clear_redo) ==
    /\ undo_stack' = Append(undo_stack, deepcopy(logs, plans))
    /\ redo_stack' = redo_stack
    /\ update_undo_redo(undo_stack', redo_stack')

(* register_undo(clear_redo): a deep copy of the list goes on the undo stack *)
register_undo(clear_redo) ==
    /\ undo_stack' = Append(undo_stack, deepcopy(logs, plans))
    /\ redo_stack' = IF clear_redo THEN <<>> ELSE redo_stack
    /\ update_undo_redo(undo_stack', redo_stack')

Front(s) == SubSeq(s, 1, Len(s) - 1)
Last(s) == s[Len(s)]

(* Mutant: the new entry is put in front of the list *)
append_new_in_front(st, name, start_str, end_str, is_continued) ==
    State(<<ContinuingLogItem(name, start_str, end_str, Len(st.logs),
                              Len(st.plans) + 1, is_continued)>>
              \o [i \in 1..Len(st.logs) |->
                     [st.logs[i] EXCEPT
                         !.previous_log = IF @ = 0 THEN 0 ELSE @ + 1,
                         !.next_log = IF @ = 0 THEN 0 ELSE @ + 1]],
          Append(st.plans, DefaultPlan))

(* self.logs.append(ContinuingLogItem(...)) with a new default plan *)
append_new(st, name, start_str, end_str, is_continued) ==
    State(Append(st.logs, ContinuingLogItem(name, start_str, end_str, Len(st.logs),
                                            Len(st.plans) + 1, is_continued)),
          Append(st.plans, DefaultPlan))

on_plus_button_click ==
    /\ register_undo(TRUE)
    /\ Commit(update_link(append_new(Live, "",
                                     IF Len(logs) > 0 THEN Last(logs).end_str ELSE NoText,
                                     NoText, FALSE),
                          previous_logs))
    /\ UNCHANGED <<previous_logs, continue_after_break, break_text>>
    /\ Save
    /\ pass_ran' = TRUE

on_remove_marks_click ==
    /\ register_undo(TRUE)
    /\ Commit(update_link(
           State(logs, [p \in 1..Len(plans) |->
                           IF \E i \in Positions : logs[i].plan = p
                           THEN [plans[p] EXCEPT !.is_marked = FALSE, !.is_mark_set = TRUE]
                           ELSE plans[p]]),
           previous_logs))
    /\ UNCHANGED <<previous_logs, continue_after_break, break_text>>
    /\ Save
    /\ pass_ran' = TRUE

(* Mutant: the archive is cut at its front, so the oldest entries are kept *)
on_clear_button_click_keep_oldest ==
    /\ register_undo(TRUE)
    /\ LET reversed == [k \in 1..Len(logs) |-> log_dic(logs, plans, Len(logs) + 1 - k)]
           joined == reversed \o previous_logs
       IN previous_logs' = SubSeq(joined, IF Len(joined) < ArchiveLimit
                                          THEN 1 ELSE Len(joined) - ArchiveLimit + 1,
                                  Len(joined))
    /\ Commit(update_link(State(<<>>, <<>>), previous_logs'))
    /\ UNCHANGED <<continue_after_break, break_text>>
    /\ Save
    /\ pass_ran' = TRUE

on_clear_button_click ==
    /\ register_undo(TRUE)
    /\ LET reversed == [k \in 1..Len(logs) |-> log_dic(logs, plans, Len(logs) + 1 - k)]
           joined == reversed \o previous_logs
       IN previous_logs' = SubSeq(joined, 1, IF Len(joined) < ArchiveLimit
                                             THEN Len(joined) ELSE ArchiveLimit)
    /\ Commit(update_link(State(<<>>, <<>>), previous_logs'))
    /\ UNCHANGED <<continue_after_break, break_text>>
    /\ Save
    /\ pass_ran' = TRUE

(* Mutant: Undo registers the redo snapshot before it looks at the undo
   stack *)
on_undo_button_click_unguarded ==
    /\ redo_stack' = Append(redo_stack, deepcopy(logs, plans))
    /\ IF Len(undo_stack) > 0
       THEN /\ undo_stack' = Front(undo_stack)
            /\ update_undo_redo(undo_stack', redo_stack')
            /\ Commit(update_link(Last(undo_stack), previous_logs))
            /\ UNCHANGED <<previous_logs, continue_after_break, break_text>>
            /\ Save
            /\ pass_ran' = TRUE
       ELSE /\ update_undo_redo(undo_stack, redo_stack')
            /\ UNCHANGED <<logs, plans, previous_logs, undo_stack,
                             continue_after_break, break_text, file, pass_ran>>

(* Mutant: Undo also takes the restored entries back out of the archive *)
on_undo_button_click_unarchive ==
    /\ IF Len(undo_stack) > 0
       THEN /\ redo_stack' = Append(redo_stack, deepcopy(logs, plans))
            /\ undo_stack' = Front(undo_stack)
            /\ update_undo_redo(undo_stack', redo_stack')
            /\ previous_logs' =
                   IF logs = <<>> /\ Len(previous_logs) >= Len(Last(undo_stack).logs)
                   THEN SubSeq(previous_logs, Len(Last(undo_stack).logs) + 1,
                               Len(previous_logs))
                   ELSE previous_logs
            /\ Commit(update_link(Last(undo_stack), previous_logs'))
            /\ UNCHANGED <<continue_after_break, break_text>>
            /\ Save
            /\ pass_ran' = TRUE
       ELSE UNCHANGED <<logs, plans, previous_logs, undo_stack, redo_stack,
                        undo_button, redo_button,
                        continue_after_break, break_text, file, pass_ran>>

(* Mutant: Undo leaves the buttons as register_redo set them, before the
   snapshot is popped *)
on_undo_button_click_stale_buttons ==
    /\ IF Len(undo_stack) > 0
       THEN /\ redo_stack' = Append(redo_stack, deepcopy(logs, plans))
            /\ undo_stack' = Front(undo_stack)
            /\ update_undo_redo(undo_stack, redo_stack')
            /\ Commit(update_link(Last(undo_stack), previous_logs))
            /\ UNCHANGED <<previous_logs, continue_after_break, break_text>>
            /\ Save
            /\ pass_ran' = TRUE
       ELSE UNCHANGED <<logs, plans, previous_logs, undo_stack, redo_stack,
                        undo_button, redo_button,
                        continue_after_break, break_text, file, pass_ran>>

on_undo_button_click ==
    /\ IF Len(undo_stack) > 0
       THEN /\ redo_stack' = Append(redo_stack, deepcopy(logs, plans))
            /\ undo_stack' = Front(undo_stack)
            /\ update_undo_redo(undo_stack', redo_stack')
            /\ Commit(update_link(Last(undo_stack), previous_logs))
            /\ UNCHANGED <<previous_logs, continue_after_break, break_text>>
            /\ Save
            /\ pass_ran' = TRUE
       ELSE UNCHANGED <<logs, plans, previous_logs, undo_stack, redo_stack,
                        undo_button, redo_button,
                        continue_after_break, break_text, file, pass_ran>>

on_redo_button_click ==
    /\ IF Len(redo_stack) > 0
       THEN /\ undo_stack' = Append(undo_stack, deepcopy(logs, plans))
            /\ redo_stack' = Front(redo_stack)
            /\ update_undo_redo(undo_stack', redo_stack')
            /\ Commit(update_link(Last(redo_stack), previous_logs))
            /\ UNCHANGED <<previous_logs, continue_after_break, break_text>>
            /\ Save
            /\ pass_ran' = TRUE
       ELSE UNCHANGED <<logs, plans, previous_logs, undo_stack, redo_stack,
                        undo_button, redo_button,
                        continue_after_break, break_text, file, pass_ran>>

(* Mutant: a snapshot is registered before each of the two appends *)
on_break_button_click_snapshot_each(now_str) ==
    /\ IF Len(logs) > 0
       THEN /\ LET last_log == Last(logs)
                   s1 == update_link(append_new(Live, break_text, last_log.end_str,
                                                now_str, FALSE),
                                     previous_logs)
                   s2 == update_link(append_new(s1, last_log.name, now_str, NoText,
                                                continue_after_break),
                                     previous_logs)
               IN /\ Commit(s2)
                  /\ undo_stack' = Append(Append(undo_stack, deepcopy(logs, plans)),
                                          deepcopy(s1.logs, s1.plans))
                  /\ redo_stack' = <<>>
                  /\ update_undo_redo(undo_stack', redo_stack')
            /\ UNCHANGED <<previous_logs, continue_after_break, break_text>>
            /\ Save
            /\ pass_ran' = TRUE
       ELSE UNCHANGED <<logs, plans, previous_logs, undo_stack, redo_stack,
                        undo_button, redo_button,
                        continue_after_break, break_text, file, pass_ran>>

(* Mutant: the continuation entry is appended before the break entry *)
on_break_button_click_continuation_first(now_str) ==
    /\ IF Len(logs) > 0
       THEN /\ register_undo(TRUE)
            /\ LET last_log == Last(logs)
                   s1 == update_link(append_new(Live, last_log.name, now_str, NoText,
                                                continue_after_break),
                                     previous_logs)
                   s2 == update_link(append_new(s1, break_text, last_log.end_str,
                                                now_str, FALSE),
                                     previous_logs)
               IN Commit(s2)
            /\ UNCHANGED <<previous_logs, continue_after_break, break_text>>
            /\ Save
            /\ pass_ran' = TRUE
       ELSE UNCHANGED <<logs, plans, previous_logs, undo_stack, redo_stack,
                        undo_button, redo_button,
                        continue_after_break, break_text, file, pass_ran>>

(* now_str is the text of the current time; update(APPEND) reconciles after
   each of the two appends *)
on_break_button_click(now_str) ==
    /\ IF Len(logs) > 0
       THEN /\ register_undo(TRUE)
            /\ LET last_log == Last(logs)
                   s1 == update_link(append_new(Live, break_text, last_log.end_str,
                                                now_str, FALSE),
                                     previous_logs)
                   s2 == update_link(append_new(s1, last_log.name, now_str, NoText,
                                                continue_after_break),
                                     previous_logs)
               IN Commit(s2)
            /\ UNCHANGED <<previous_logs, continue_after_break, break_text>>
            /\ Save
            /\ pass_ran' = TRUE
       ELSE UNCHANGED <<logs, plans, previous_logs, undo_stack, redo_stack,
                        undo_button, redo_button,
                        continue_after_break, break_text, file, pass_ran>>

on_continue_after_break_change ==
    /\ continue_after_break' = ~continue_after_break
    /\ UNCHANGED <<logs, plans, previous_logs, undo_stack, redo_stack,
                   undo_button, redo_button, break_text>>
    /\ Save
    /\ UNCHANGED pass_ran

(* The user types a break title: the text field has no observer *)
break_text_edit(title) ==
    /\ title # break_text
    /\ break_text' = title
    /\ UNCHANGED <<logs, plans, previous_logs, undo_stack, redo_stack,
                   undo_button, redo_button,
                   continue_after_break, file>>
    /\ UNCHANGED pass_ran

(* set_logs(logs): the caller hands over a list of entries it constructed *)
set_logs(dics) ==
    /\ register_undo(TRUE)
    /\ LET built == parse_logs(dics)
       IN Commit(update_link(
              State([i \in 1..Len(dics) |-> [built.logs[i] EXCEPT !.index = i - 1]],
                    built.plans),
              previous_logs))
    /\ UNCHANGED <<previous_logs, continue_after_break, break_text>>
    /\ Save
    /\ pass_ran' = TRUE

(* on_upload_click of an item box of a controller that has this controller
   as its reference_controller: the uploaded entry is appended here *)
on_upload_click(name, start_time, end_time) ==
    /\ register_undo(TRUE)
    /\ Commit(update_link(append_new(Live, name, time_str(Some(start_time)),
                                     time_str(Some(end_time)), TRUE),
                          previous_logs))
    /\ UNCHANGED <<previous_logs, continue_after_break, break_text>>
    /\ Save
    /\ pass_ran' = TRUE

----------------------------------------------------------------------------
(* The handlers of PlannerLoggerItemBox, for the box of the entry at
   position i.  A change handler runs when the widget's value changes, so
   the new value differs from the old one.  update() disables the mark check
   box and the two duration fields of a continued entry. *)

HandlerFrame == UNCHANGED <<previous_logs, undo_stack, redo_stack,
                            undo_button, redo_button,
                            continue_after_break, break_text>>

on_check(i) ==
    /\ i \in Positions
    /\ ~logs[i].is_continued
    /\ LET p == logs[i].plan
           s1 == State(logs, [plans EXCEPT ![p].is_marked = ~plans[p].is_marked,
                                           ![p].is_mark_set = TRUE])
       IN Commit(IF is_in_list(logs[i]) THEN update_link(s1, previous_logs) ELSE s1)
    /\ HandlerFrame
    /\ Save
    /\ pass_ran' = is_in_list(logs[i])

on_continue_check(i) ==
    /\ i \in Positions
    /\ Commit(update_link(set_is_continued(Live, i, ~logs[i].is_continued), previous_logs))
    /\ HandlerFrame
    /\ Save
    /\ pass_ran' = TRUE

on_name_change(i, new_name) ==
    /\ i \in Positions
    /\ new_name # logs[i].name
    /\ Commit(update_link(State([logs EXCEPT ![i].name = new_name], plans), previous_logs))
    /\ HandlerFrame
    /\ Save
    /\ pass_ran' = TRUE

on_first_duration_change(i, new_text) ==
    /\ i \in Positions
    /\ ~logs[i].is_continued
    /\ new_text # plans[logs[i].plan].first_duration
    /\ LET s1 == State(logs, [plans EXCEPT ![logs[i].plan].first_duration = new_text])
       IN Commit(IF is_head(logs[i]) THEN update_link(s1, previous_logs) ELSE s1)
    /\ HandlerFrame
    /\ Save
    /\ pass_ran' = is_head(logs[i])

on_last_duration_change(i, new_text) ==
    /\ i \in Positions
    /\ ~logs[i].is_continued
    /\ new_text # plans[logs[i].plan].last_duration
    /\ LET s1 == State(logs, [plans EXCEPT ![logs[i].plan].last_duration = new_text])
       IN Commit(IF is_head(logs[i]) THEN update_link(s1, previous_logs) ELSE s1)
    /\ HandlerFrame
    /\ Save
    /\ pass_ran' = is_head(logs[i])

(* The list after on_start_change / on_end_change of entry i *)
start_changed(i, new_text) ==
    LET s1 == State([logs EXCEPT ![i].start_str = new_text], plans)
    IN IF is_in_list(logs[i]) THEN update_link(s1, previous_logs) ELSE s1

end_changed(i, new_text) ==
    LET s1 == State([logs EXCEPT ![i].end_str = new_text], plans)
    IN IF is_in_list(logs[i]) THEN update_link(s1, previous_logs) ELSE s1

on_start_change(i, new_text) ==
    /\ i \in Positions
    /\ new_text # logs[i].start_str
    /\ Commit(start_changed(i, new_text))
    /\ HandlerFrame
    /\ Save
    /\ pass_ran' = is_in_list(logs[i])

on_end_change(i, new_text) ==
    /\ i \in Positions
    /\ new_text # logs[i].end_str
    /\ Commit(end_changed(i, new_text))
    /\ HandlerFrame
    /\ Save
    /\ pass_ran' = is_in_list(logs[i])

(* The Now buttons register an undo snapshot and write the current time into
   the text field, which runs the change handler if the text changes *)
on_start_now_click(i, now_str) ==
    /\ i \in Positions
    /\ register_undo(TRUE)
    /\ UNCHANGED <<previous_logs, continue_after_break, break_text>>
    /\ IF now_str # logs[i].start_str
       THEN Commit(start_changed(i, now_str)) /\ Save /\ pass_ran' = is_in_list(logs[i])
       ELSE UNCHANGED <<logs, plans, file, pass_ran>>

on_end_now_click(i, now_str) ==
    /\ i \in Positions
    /\ register_undo(TRUE)
    /\ UNCHANGED <<previous_logs, continue_after_break, break_text>>
    /\ IF now_str # logs[i].end_str
       THEN Commit(end_changed(i, now_str)) /\ Save /\ pass_ran' = is_in_list(logs[i])
       ELSE UNCHANGED <<logs, plans, file, pass_ran>>

(* The Last button copies the end text of the entry at list position
   index - 1 *)
on_last_click(i) ==
    /\ i \in Positions
    /\ UNCHANGED <<previous_logs, continue_after_break, break_text>>
    /\ IF logs[i].index >= 1 /\ logs[logs[i].index].end_str # NoText
       THEN /\ register_undo(TRUE)
            /\ IF logs[logs[i].index].end_str # logs[i].start_str
               THEN /\ Commit(start_changed(i, logs[logs[i].index].end_str))
                    /\ Save
                    /\ pass_ran' = is_in_list(logs[i])
               ELSE UNCHANGED <<logs, plans, file, pass_ran>>
       ELSE UNCHANGED <<logs, plans, undo_stack, redo_stack,
                        undo_button, redo_button, file, pass_ran>>

----------------------------------------------------------------------------
(* Debounced functions.  debounced(delay_seconds, method)(f) makes one
   wrapper with its own dictionary of counters; logger.py makes one wrapper
   per name field (method = False, the only key is None, here NoKey), and a wrapper
   made with method = True keeps one counter per instance (args[0]).
   counters[w][key] is the defaultdict(int) of wrapper w. *)

Wrappers == {"name_1", "name_2", "method"}
method(w) == w = "method"
Instances == {"a", "b"}
NoKey == "None"
Keys == Instances \cup {NoKey}

(* No duration went through the codec yet *)
(* The object graph by address and the widgets are not followed *)
(* __init__ sets both flags to False *)
suspend_idle ==
    /\ suspend_summary_update = FALSE /\ suspend_link_update = FALSE
    /\ summary_runs = 0

views_idle ==
    /\ heap = <<>> /\ live = <<>> /\ undo_objects = <<>> /\ redo_objects = <<>>
    /\ boxes = <<>> /\ update_queue = <<>> /\ feedback = FALSE
    /\ suspend_idle

codec_idle ==
    /\ given_seconds = 0 /\ duration_text = <<>> /\ parsed = <<>> /\ shown = FALSE

(* Nothing was called yet: every counter is the default 0 and the event loop
   holds no callback and no timeout *)
ioloop_idle ==
    /\ counters = [w \in Wrappers |-> [k \in Keys |-> 0]]
    /\ callbacks = <<>>
    /\ timeouts = {}
    /\ clock = 0
    /\ called = <<>>
    /\ executed = <<>>

----------------------------------------------------------------------------
(* A session.  presses counts the button presses and API calls that begin a
   new user action (the ones that may register an undo snapshot); a session
   has at most MaxUndo of them, so the two stacks together never hold more
   than MaxUndo snapshots.  Edits in place, Undo and Redo are not counted.
   load_error tells whether the construction of a further controller on
   the file raised an exception to its caller. *)

Press(handler) ==
    /\ presses < MaxUndo /\ presses' = presses + 1 /\ handler
    /\ UNCHANGED load_error /\ UNCHANGED ioloop_vars /\ UNCHANGED codec_vars /\ UNCHANGED bonus_vars /\ UNCHANGED view_vars
Edit(handler) ==
    /\ handler
    /\ UNCHANGED <<presses, load_error>> /\ UNCHANGED ioloop_vars
    /\ UNCHANGED codec_vars /\ UNCHANGED bonus_vars /\ UNCHANGED view_vars

----------------------------------------------------------------------------
(* Construction.  __init__ loads the document of the file, reconciles
   (update(RESET)) and saves.  A missing file gives the empty document. *)

Constructed(doc_logs, doc_previous, doc_cab, doc_title) ==
    /\ LET n == Normalize(update_link(parse_logs(doc_logs), doc_previous))
       IN logs = n.logs /\ plans = n.plans
    /\ previous_logs = doc_previous
    /\ undo_stack = <<>>
    /\ redo_stack = <<>>
    /\ undo_button = button(undo_stack)
    /\ redo_button = button(redo_stack)
    /\ continue_after_break = doc_cab
    /\ break_text = doc_title
    /\ file = save(logs, plans, previous_logs, continue_after_break, break_text)
    /\ pass_ran = TRUE
    /\ presses = 0
    /\ load_error = FALSE

Loaded(doc_logs, doc_previous, doc_cab, doc_title) ==
    /\ Constructed(doc_logs, doc_previous, doc_cab, doc_title)
    /\ ioloop_idle
    /\ codec_idle
    /\ bonus_formula = <<>>
    /\ views_idle

(* Inputs of the model *)
Names == {"x", "y"}
DurationTexts == {<<>>, <<"2", "h">>}

(* A document entry as log_dic writes it *)
DocLog(name, start_str, end_str, index, is_continued, plan) ==
    [name |-> name, start_str |-> start_str, end_str |-> end_str,
     index |-> index, is_continued |-> is_continued, plan |-> plan]

(* The archives of the documents loaded *)
Archives ==
    {<<>>,
     <<DocLog("x", NoText, NoText, 0, FALSE, TwoStagePlanItem(<<>>, <<>>, TRUE, TRUE)),
       DocLog("x", NoText, NoText, 1, FALSE, DefaultPlan)>>}

(* The specification of the edit handlers: the controller is constructed
   from a saved document of up to MaxLogs entries, then the user edits the
   entries in place *)
Init ==
    \E n \in 0..MaxLogs, prev \in Archives :
        Loaded([i \in 1..n |-> DocLog("x", NoText, NoText, i - 1, FALSE, DefaultPlan)],
               prev, TRUE, "")

Next ==
    \/ \E i \in Positions : Edit(on_check(i))
    \/ \E i \in Positions : Edit(on_continue_check(i))
    \/ \E i \in Positions \ {1}, n \in Names : Edit(on_name_change(i, n))
    \/ \E d \in DurationTexts : Edit(on_first_duration_change(1, d))

Spec == Init /\ [][Next]_vars

----------------------------------------------------------------------------
(* Chains, read off the links without assuming they are well formed *)

(* The entries met from i along next_log, i first, at most fuel of them *)
RECURSIVE WalkNext(_, _, _)
WalkNext(ls, i, fuel) ==
    IF i = 0 \/ fuel = 0 THEN <<>>
    ELSE <<i>> \o WalkNext(ls, ls[i].next_log, fuel - 1)

(* The entries met from i along previous_log, i first *)
RECURSIVE WalkPrevious(_, _, _)
WalkPrevious(ls, i, fuel) ==
    IF i = 0 \/ fuel = 0 THEN <<>>
    ELSE <<i>> \o WalkPrevious(ls, ls[i].previous_log, fuel - 1)

SeqRange(s) == {s[k] : k \in DOMAIN s}

(* A walk that ends at None within Len(ls) entries revisits nothing *)
EndsNext(ls, i) == Len(WalkNext(ls, i, Len(ls) + 1)) <= Len(ls)
EndsPrevious(ls, i) == Len(WalkPrevious(ls, i, Len(ls) + 1)) <= Len(ls)

(* The chain of i: the entries before it and after it along the links *)
ChainOf(ls, i) ==
    SeqRange(WalkPrevious(ls, i, Len(ls))) \cup SeqRange(WalkNext(ls, i, Len(ls)))

LinksInList(ls) ==
    \A i \in 1..Len(ls) : ls[i].next_log \in 0..Len(ls) /\ ls[i].previous_log \in 0..Len(ls)

LinksMutual(ls) ==
    \A i \in 1..Len(ls) :
        /\ ls[i].next_log # 0 => ls[ls[i].next_log].previous_log = i
        /\ ls[i].previous_log # 0 => ls[ls[i].previous_log].next_log = i

(* The result of a reconciliation pass over the current list *)
Reconciled == update_link(Live, previous_logs)

----------------------------------------------------------------------------
(* C1: after a reconciliation pass the links form disjoint finite linear
   chains: every link stays in the list and is mutual, following next_log
   from any entry ends at one tail without revisiting an entry, and a chain
   has as many entries as the list has entries that reference its plan. *)
ChainLinear(st) ==
    /\ LinksInList(st.logs)
    /\ LinksMutual(st.logs)
    /\ \A i \in 1..Len(st.logs) :
          /\ EndsNext(st.logs, i)
          /\ EndsPrevious(st.logs, i)
          /\ st.logs[i].previous_log = 0 =>
                Len(WalkNext(st.logs, i, Len(st.logs))) =
                Cardinality({j \in 1..Len(st.logs) : st.logs[j].plan = st.logs[i].plan})

C1_ChainLinearity == ChainLinear(Reconciled) /\ ChainLinear(Live)

(* A chain of three entries: a head, a middle entry and a tail *)
C1_Witness ==
    \E i \in Positions :
        /\ is_head(logs[i])
        /\ Len(WalkNext(logs, i, Len(logs))) >= 3

(* C2: after a reconciliation pass two entries reference the same plan
   object exactly when they are in the same chain, so every member's plan is
   the plan of the head of its chain. *)
PlanSharedIffSameChain(st) ==
    \A i, j \in 1..Len(st.logs) :
        (st.logs[i].plan = st.logs[j].plan) <=> (j \in ChainOf(st.logs, i))

C2_PlanSharing == PlanSharedIffSameChain(Reconciled) /\ PlanSharedIffSameChain(Live)

(* A chain of two entries next to an entry outside it *)
C2_Witness ==
    \E i, j, k \in Positions :
        /\ logs[i].next_log = j
        /\ k \notin ChainOf(logs, i)
        /\ logs[k].name = logs[i].name
        /\ logs[i].plan = logs[j].plan

(* C3: a second reconciliation pass right after a first one changes nothing:
   in every state a handler left behind by a pass, a further pass leaves
   links, is_continued, plan identity and plan values as they are. *)
C3_Idempotent ==
    pass_ran => Normalize(update_link(Live, previous_logs)) = Live

(* A pass that had a chain to build and a mark to inherit *)
C3_Witness ==
    \E i, j \in Positions :
        /\ logs[i].previous_log # 0
        /\ ~logs[j].is_continued
        /\ ~plans[logs[j].plan].is_mark_set
        /\ plans[logs[j].plan].is_marked

(* C5: after a reconciliation pass every entry that is not continued and has
   no manual mark carries the mark of the nearest preceding entry of the same
   name, else the mark of the first entry of that name in the archive, else
   false; a plan with a manual mark keeps its mark. *)
ExpectedMark(st, i, prev) ==
    LET before == {j \in 1..(i - 1) : st.logs[j].name = st.logs[i].name}
        archived == {j \in 1..Len(prev) : prev[j].name = st.logs[i].name}
    IN IF before # {}
       THEN st.plans[st.logs[CHOOSE j \in before : \A k \in before : k <= j].plan].is_marked
       ELSE IF archived # {}
       THEN prev[CHOOSE j \in archived : \A k \in archived : j <= k].plan.is_marked
       ELSE FALSE

MarksInherited(st, prev) ==
    \A i \in 1..Len(st.logs) :
        (~st.logs[i].is_continued /\ ~st.plans[st.logs[i].plan].is_mark_set)
            => st.plans[st.logs[i].plan].is_marked = ExpectedMark(st, i, prev)

C5_MarkInheritance ==
    /\ MarksInherited(Reconciled, previous_logs)
    /\ pass_ran => MarksInherited(Live, previous_logs)
    /\ \A i \in Positions :
          plans[logs[i].plan].is_mark_set =>
              /\ Reconciled.plans[Reconciled.logs[i].plan].is_mark_set
              /\ Reconciled.plans[Reconciled.logs[i].plan].is_marked
                    = plans[logs[i].plan].is_marked

(* Marks inherited from a predecessor and from the archive, next to a manual
   mark *)
C5_Witness ==
    /\ previous_logs # <<>>
    /\ \E i, j, k \in Positions :
          /\ i < j
          /\ logs[i].name = logs[j].name
          /\ ~logs[j].is_continued
          /\ ~plans[logs[j].plan].is_mark_set
          /\ plans[logs[j].plan].is_marked
          /\ plans[logs[i].plan].is_mark_set
          /\ ~plans[logs[k].plan].is_mark_set
          /\ same_name_logs(logs, k) = {}

(* C6: an entry that leaves a chain gets its own plan back.  Read step by
   step for the entry at a position i of the list: when it joins, the backup
   holds the values of its plan as they were right before; while it is a
   member, the backup keeps its values; when it leaves, its plan takes the
   values of the backup. *)
SamePositions == Len(logs') = Len(logs)

Joins(i) == ~logs[i].is_continued /\ logs'[i].is_continued
Stays(i) == logs[i].is_continued /\ logs'[i].is_continued
Leaves(i) == logs[i].is_continued /\ ~logs'[i].is_continued

BackupKept(i) ==
    /\ Joins(i) => plans'[logs'[i].backup_plan] = plans[logs[i].plan]
    /\ Stays(i) => plans'[logs'[i].backup_plan] = plans[logs[i].backup_plan]

(* The claim as stated: all four fields of the plan are those of the backup *)
C6_RestoresAllFields ==
    [][SamePositions =>
          \A i \in Positions :
              /\ BackupKept(i)
              /\ Leaves(i) => plans'[logs'[i].plan] = plans[logs[i].backup_plan]]_vars

(* As amended: the durations and is_mark_set are those of the backup, and so
   is is_marked when the backup has a manual mark; without a manual mark the
   pass that follows in the same handler sets is_marked by inheritance. *)
C6_RestoresOwnPlan ==
    [][SamePositions =>
          \A i \in Positions :
              /\ BackupKept(i)
              /\ Leaves(i) =>
                    LET restored == plans'[logs'[i].plan]
                        backup == plans[logs[i].backup_plan]
                    IN /\ restored.first_duration = backup.first_duration
                       /\ restored.last_duration = backup.last_duration
                       /\ restored.is_mark_set = backup.is_mark_set
                       /\ restored.is_marked =
                             IF backup.is_mark_set THEN backup.is_marked
                             ELSE ExpectedMark(State(logs', plans'), i, previous_logs')
                       /\ logs'[i].plan # logs'[i].backup_plan]_vars

(* An entry that left a chain and holds a copy of its backup, whose manual
   mark differs from the mark of the chain it left *)
C6_Witness ==
    \E i, j \in Positions :
        /\ j < i
        /\ logs[j].name = logs[i].name
        /\ ~logs[i].is_continued
        /\ logs[i].plan # logs[i].backup_plan
        /\ plans[logs[i].plan] = plans[logs[i].backup_plan]
        /\ plans[logs[i].plan].is_mark_set
        /\ plans[logs[i].plan].is_marked
        /\ ~plans[logs[j].plan].is_marked
        /\ plans[logs[j].plan].first_duration # <<>>

----------------------------------------------------------------------------
(* The specification of the durations: the controller is constructed from a
   saved document whose entries, all of one name, carry start and end texts;
   the user then toggles continuation and edits the times and the plan of
   the first entry. *)

StartTexts == {NoText, 9 * 60, 9 * 60 + 30}
EndTexts == {NoText, 9 * 60 + 30, 10 * 60 + 15}
FirstDurationTexts == {<<>>, <<"3", "0">>}
LastDurationTexts == {<<>>, <<"2", "h">>}

InitTime ==
    \E n \in 1..MaxLogs :
        \E ss \in [1..n -> StartTexts], es \in [1..n -> EndTexts] :
            Loaded([i \in 1..n |-> DocLog("x", ss[i], es[i], i - 1, FALSE, DefaultPlan)],
                   <<>>, TRUE, "")

NextTime ==
    \/ \E i \in Positions \ {1} : Edit(on_continue_check(i))
    \/ \E t \in {BadText, 9 * 60 + 30} : Edit(on_start_change(1, t))
    \/ \E t \in {9 * 60} : Edit(on_end_change(Len(logs), t))
    \/ \E d \in FirstDurationTexts : Edit(on_first_duration_change(1, d))
    \/ \E d \in LastDurationTexts : Edit(on_last_duration_change(1, d))

SpecTime == InitTime /\ [][NextTime]_vars

(* The entries that reference the plan of entry i: its chain (C2) *)
PlanSharers(i) == {j \in Positions : logs[j].plan = logs[i].plan}

DurationOf == [j \in Positions |-> duration(logs[j])]

(* C4: the total duration of the tail of a chain is the sum of the durations
   of the entries of the chain, each counted once, and the total duration of
   any member is the sum over the member and the entries before it in the
   chain. *)
C4_DurationAdditivity ==
    \A i \in Positions :
        /\ total_duration(logs, i) =
              SumOver({j \in PlanSharers(i) : j <= i}, DurationOf)
        /\ total_duration(logs, tail(logs, i)) = SumOver(PlanSharers(i), DurationOf)

(* A chain of three entries with three different durations, one of them
   across midnight *)
C4_Witness ==
    \E i \in Positions :
        /\ Cardinality(PlanSharers(i)) = 3
        /\ \A j, k \in PlanSharers(i) : j # k => DurationOf[j] # DurationOf[k]
        /\ \E j \in PlanSharers(i) :
              start(logs[j]) # None /\ end(logs[j]) # None
              /\ end(logs[j])[1] < start(logs[j])[1]
        /\ total_duration(logs, tail(logs, i)) > DaySeconds

(* C10: for every entry of a chain with tail t and shared plan P,
   time_diffs is (parse(P.first_duration) - total, parse(P.last_duration) -
   total) with total the summed duration of the chain; a component is absent
   exactly when the plan field does not parse or t lacks a start or an end;
   all members of a chain get the same result. *)
ExpectedDiff(i, text) ==
    LET t == logs[Max(PlanSharers(i))]
    IN IF parse_duration(text) # None /\ start(t) # None /\ end(t) # None
       THEN Some(parse_duration(text)[1] - SumOver(PlanSharers(i), DurationOf))
       ELSE None

C10_TimeDiffs ==
    \A i \in Positions :
        /\ time_diffs(Live, i) =
              <<ExpectedDiff(i, plans[logs[i].plan].first_duration),
                ExpectedDiff(i, plans[logs[i].plan].last_duration)>>
        /\ \A j \in PlanSharers(i) : time_diffs(Live, j) = time_diffs(Live, i)

(* The chain 09:00-09:30, 09:30-10:15 under a plan of 2h: both members see a
   last difference of 45 minutes *)
C10_Witness ==
    /\ Len(logs) >= 2
    /\ logs[2].previous_log = 1
    /\ logs[2].next_log = 0
    /\ duration(logs[1]) = 30 * MinuteSeconds
    /\ duration(logs[2]) = 45 * MinuteSeconds
    /\ plans[logs[1].plan].last_duration = <<"2", "h">>
    /\ time_diffs(Live, 1)[2] = Some(45 * MinuteSeconds)
    /\ time_diffs(Live, 2)[2] = Some(45 * MinuteSeconds)
    /\ time_diffs(Live, 1)[1] = None

----------------------------------------------------------------------------
(* The specification of the undo and redo stacks: the controller is
   constructed from a saved document of up to two entries, then the user
   presses the buttons of the controller and of the item boxes, marks
   entries, and callers use set_logs and upload.  Appends are taken while
   the list has room for them, and the list is cleared while the archive has
   room for its entries. *)

NowText == 10 * 60

LogsRoom(k) == Len(logs) + k <= MaxLogs
ArchiveRoom == Len(logs) + Len(previous_logs) <= MaxArchive

(* The lists callers hand to set_logs: the indices are the caller's *)
SetLogsInputs ==
    {<<DocLog("x", NoText, NoText, 5, FALSE, DefaultPlan),
       DocLog("x", NoText, NoText, 7, TRUE, DefaultPlan)>>}

InitUndo ==
    \E n \in 0..2 :
        Loaded([i \in 1..n |-> DocLog("x", NoText, NoText, i - 1, FALSE, DefaultPlan)],
               <<>>, TRUE, "")

NextUndo ==
    \/ LogsRoom(1) /\ Press(on_plus_button_click)
    \/ Press(on_remove_marks_click)
    \/ ArchiveRoom /\ Press(on_clear_button_click)
    \/ Edit(on_undo_button_click)
    \/ Edit(on_redo_button_click)
    \/ (Len(logs) = 0 \/ LogsRoom(2)) /\ Press(on_break_button_click(NowText))
    \/ Press(on_start_now_click(1, NowText))
    \/ Press(on_end_now_click(1, NowText))
    \/ Press(on_last_click(2))
    \/ \E dics \in SetLogsInputs : Press(set_logs(dics))
    \/ LogsRoom(1) /\ Press(on_upload_click("x", NowText, NowText))
    \/ \E i \in Positions : i <= 2 /\ Edit(on_check(i))

SpecUndo == InitUndo /\ [][NextUndo]_vars

(* The steps of Undo and Redo that find a snapshot: Undo pops the undo
   stack; Redo pops the redo stack (a new user action empties it, and is
   counted in presses) *)
UndoStep == Len(undo_stack') < Len(undo_stack)
RedoStep == presses' = presses /\ Len(redo_stack') < Len(redo_stack)

(* C7: Undo yields a list deep-equal (names, times, indices, is_continued,
   links, plan values and plan sharing) to the list as register_undo saved
   it, and Redo yields a list deep-equal to the list as it was just before
   the Undo. *)
C7_RoundTrip ==
    [][/\ UndoStep => State(logs', plans') = Last(undo_stack)
       /\ RedoStep => State(logs', plans') = Last(redo_stack)]_vars

(* What Undo and Redo do restore: everything but is_marked of the plans
   that have no manual mark *)
Unmarked(st) ==
    State(st.logs, [p \in 1..Len(st.plans) |->
                       IF st.plans[p].is_mark_set THEN st.plans[p]
                       ELSE [st.plans[p] EXCEPT !.is_marked = FALSE]])

RoundTripButInheritedMarks ==
    [][/\ UndoStep => Unmarked(State(logs', plans')) = Unmarked(Last(undo_stack))
       /\ RedoStep => Unmarked(State(logs', plans')) = Unmarked(Last(redo_stack))]_vars

(* C8: every new user action that registers an undo snapshot leaves the redo
   stack empty; Redo pushes the current list onto the undo stack and pops
   only the top of the redo stack, and Undo pushes the current list onto the
   redo stack, so k Undos in a row can be followed by k Redos. *)
C8_RedoStack ==
    [][/\ (presses' # presses /\ undo_stack' # undo_stack) =>
              /\ redo_stack' = <<>>
              /\ undo_stack' = Append(undo_stack, State(logs, plans))
       /\ RedoStep =>
              /\ redo_stack' = Front(redo_stack)
              /\ undo_stack' = Append(undo_stack, State(logs, plans))
       /\ UndoStep =>
              /\ undo_stack' = Front(undo_stack)
              /\ redo_stack' = Append(redo_stack, State(logs, plans))]_vars

(* Two new user actions were undone and one of them redone: one snapshot is
   left to redo *)
C8_Witness == presses = 2 /\ Len(undo_stack) = 1 /\ Len(redo_stack) = 1

(* C9: Undo on an empty undo stack and Redo on an empty redo stack change
   nothing (list, stacks, archive, saved document); on a non-empty stack
   Undo pushes the current list onto the redo stack, takes the top of the
   undo stack as the new list and reconciles it, and Redo does the same
   with the stacks exchanged. *)
C9_UndoRedoFrame ==
    [][/\ (on_undo_button_click /\ undo_stack = <<>>) =>
              UNCHANGED <<logs, plans, undo_stack, redo_stack, previous_logs, file>>
       /\ (on_redo_button_click /\ redo_stack = <<>>) =>
              UNCHANGED <<logs, plans, undo_stack, redo_stack, previous_logs, file>>
       /\ (on_undo_button_click /\ undo_stack # <<>>) =>
              /\ redo_stack' = Append(redo_stack, State(logs, plans))
              /\ undo_stack' = Front(undo_stack)
              /\ State(logs', plans') =
                     Normalize(update_link(Last(undo_stack), previous_logs))
              /\ previous_logs' = previous_logs
       /\ (on_redo_button_click /\ redo_stack # <<>>) =>
              /\ undo_stack' = Append(undo_stack, State(logs, plans))
              /\ redo_stack' = Front(redo_stack)
              /\ State(logs', plans') =
                     Normalize(update_link(Last(redo_stack), previous_logs))
              /\ previous_logs' = previous_logs]_vars

(* Undo has emptied the undo stack: the list is the reconciled snapshot, the
   list it replaced is on the redo stack, and another Undo finds nothing *)
C9_Witness ==
    /\ undo_stack = <<>>
    /\ redo_stack # <<>>
    /\ Len(logs) # Len(Last(redo_stack).logs)

----------------------------------------------------------------------------
(* The summed duration of the whole chain of entry i *)
ChainTotal(i) == SumOver(PlanSharers(i), DurationOf)

(* C11: for every entry of a chain (head, middle or tail),
   effective_duration is the parsed last_duration of the chain's plan when it
   parses, and otherwise the total duration of the chain's tail, the summed
   duration of the whole chain. *)
C11_EffectiveDuration ==
    \A i \in Positions :
        effective_duration(Live, i) =
            IF parse_duration(plans[logs[i].plan].last_duration) # None
            THEN parse_duration(plans[logs[i].plan].last_duration)[1]
            ELSE total_duration(logs, tail(logs, i))

(* What holds of every entry: without a last_duration that parses the
   effective duration is the entry's own total, which is the chain's total
   at the tail only *)
EffectiveDurationOwnTotal ==
    \A i \in Positions :
        /\ effective_duration(Live, i) =
               IF parse_duration(plans[logs[i].plan].last_duration) # None
               THEN parse_duration(plans[logs[i].plan].last_duration)[1]
               ELSE SumOver({j \in PlanSharers(i) : j <= i}, DurationOf)
        /\ effective_duration(Live, tail(logs, i)) =
               IF parse_duration(plans[logs[i].plan].last_duration) # None
               THEN parse_duration(plans[logs[i].plan].last_duration)[1]
               ELSE ChainTotal(i)

----------------------------------------------------------------------------
(* The summary of update_summary_and_save *)

(* Mutant: the tail of every entry is taken, whether or not its plan was
   seen *)
tail_logs_from_every_entry(st, i, acc) ==
    [k \in 1..Len(st.logs) |-> tail(st.logs, k)]

(* tail_logs: the tail of every entry whose plan is not yet the plan of a
   tail collected, in list order *)
RECURSIVE tail_logs_from(_, _, _)
tail_logs_from(st, i, acc) ==
    IF i > Len(st.logs) THEN acc
    ELSE tail_logs_from(st, i + 1,
             IF \E k \in 1..Len(acc) : st.logs[acc[k]].plan = st.logs[i].plan
             THEN acc
             ELSE Append(acc, tail(st.logs, i)))

tail_logs(st) == tail_logs_from(st, 1, <<>>)

EmptySummary ==
    [marked_plus |-> 0, marked_minus |-> 0, marked_total |-> 0,
     not_marked_plus |-> 0, not_marked_minus |-> 0, not_marked_total |-> 0]

(* Mutant: every last difference is added to plus *)
summary_step_all_plus(st, acc, t) ==
    LET diffs == time_diffs(st, t)
        time_diff_last == IF diffs[2] # None THEN diffs[2][1] ELSE 0
    IN IF st.plans[st.logs[t].plan].is_marked
       THEN [acc EXCEPT !.marked_plus = @ + time_diff_last,
                        !.marked_total = @ + effective_duration(st, t)]
       ELSE [acc EXCEPT !.not_marked_plus = @ + time_diff_last,
                        !.not_marked_total = @ + effective_duration(st, t)]

(* One iteration of the loop over tail_logs, for the tail at position t *)
summary_step(st, acc, t) ==
    LET diffs == time_diffs(st, t)
        time_diff_last == IF diffs[2] # None THEN diffs[2][1] ELSE 0
    IN IF st.plans[st.logs[t].plan].is_marked
       THEN IF time_diff_last >= 0
            THEN [acc EXCEPT !.marked_plus = @ + time_diff_last,
                             !.marked_total = @ + effective_duration(st, t)]
            ELSE [acc EXCEPT !.marked_minus = @ + time_diff_last,
                             !.marked_total = @ + effective_duration(st, t)]
       ELSE IF time_diff_last >= 0
            THEN [acc EXCEPT !.not_marked_plus = @ + time_diff_last,
                             !.not_marked_total = @ + effective_duration(st, t)]
            ELSE [acc EXCEPT !.not_marked_minus = @ + time_diff_last,
                             !.not_marked_total = @ + effective_duration(st, t)]

RECURSIVE summary_from(_, _, _, _)
summary_from(st, tails, k, acc) ==
    IF k > Len(tails) THEN acc
    ELSE summary_from(st, tails, k + 1, summary_step(st, acc, tails[k]))

summary(st) == summary_from(st, tail_logs(st), 1, EmptySummary)

(* The specification of the summary: the controller is constructed from a
   saved document whose entries, all of one name, start at 09:00 and end at
   09:30, at 10:15 or not yet; the user continues entries, and marks the
   first two entries and declares their last durations *)
SummaryEndTexts == {NoText, 9 * 60 + 30, 10 * 60 + 15}
SummaryDurationTexts == {<<>>, <<"1", "h">>}

InitSummary ==
    \E n \in 1..MaxLogs :
        \E ends \in [1..n -> SummaryEndTexts] :
            Loaded([i \in 1..n |-> DocLog("x", 9 * 60, ends[i], i - 1, FALSE, DefaultPlan)],
                   <<>>, TRUE, "")

NextSummary ==
    \/ \E i \in Positions : i <= 2 /\ Edit(on_check(i))
    \/ \E i \in Positions \ {1} : Edit(on_continue_check(i))
    \/ \E i \in Positions, d \in SummaryDurationTexts :
           i <= 2 /\ Edit(on_last_duration_change(i, d))

SpecSummary == InitSummary /\ [][NextSummary]_vars

(* The chains of the list, by their plans, and the tail of each *)
PlansUsed == {logs[i].plan : i \in Positions}
TailOf(p) == Max({i \in Positions : logs[i].plan = p})
EffectiveOfChain == [p \in PlansUsed |-> effective_duration(Live, TailOf(p))]

(* C12: the summary counts every chain once, through its tail: the two
   totals together are the sum over the chains of effective_duration(tail),
   the chains whose plan is marked make up marked_total and the others
   not_marked_total, and only they contribute to the plus and minus of
   their category. *)
C12_ChainsCountedOnce ==
    LET s == summary(Live)
        marked == {p \in PlansUsed : plans[p].is_marked}
    IN /\ s.marked_total + s.not_marked_total = SumOver(PlansUsed, EffectiveOfChain)
       /\ s.marked_total = SumOver(marked, EffectiveOfChain)
       /\ s.not_marked_total = SumOver(PlansUsed \ marked, EffectiveOfChain)
       /\ Len(tail_logs(Live)) = Cardinality(PlansUsed)
       /\ \A k \in 1..Len(tail_logs(Live)) :
              tail_logs(Live)[k] = TailOf(logs[tail_logs(Live)[k]].plan)
       /\ marked = {} => s.marked_plus = 0 /\ s.marked_minus = 0
       /\ marked = PlansUsed => s.not_marked_plus = 0 /\ s.not_marked_minus = 0

(* A marked chain of two entries and an unmarked entry, all with time *)
C12_Witness ==
    /\ Len(logs) = 3
    /\ \E i, j \in Positions : i # j /\ logs[i].plan = logs[j].plan
                               /\ plans[logs[i].plan].is_marked
                               /\ duration(logs[i]) > 0 /\ duration(logs[j]) > 0
    /\ \E i \in Positions : ~plans[logs[i].plan].is_marked /\ duration(logs[i]) > 0
    /\ summary(Live).marked_total > 0
    /\ summary(Live).not_marked_total > 0

(* The last difference of a chain, 0 when absent *)
LastDiffOfChain ==
    [p \in PlansUsed |->
        IF time_diffs(Live, TailOf(p))[2] # None THEN time_diffs(Live, TailOf(p))[2][1] ELSE 0]
PlusOfChain == [p \in PlansUsed |-> IF LastDiffOfChain[p] >= 0 THEN LastDiffOfChain[p] ELSE 0]
MinusOfChain == [p \in PlansUsed |-> IF LastDiffOfChain[p] < 0 THEN LastDiffOfChain[p] ELSE 0]

(* C13: in each category plus is the sum of the non-negative last
   differences of its chains and minus the sum of the negative ones (an
   absent one counts 0), so plus >= 0, minus <= 0 and plus + minus is the
   sum of the last differences present; the total of the category is the
   sum of effective_duration. *)
C13_PlusMinus ==
    LET s == summary(Live)
        marked == {p \in PlansUsed : plans[p].is_marked}
        others == PlansUsed \ marked
    IN /\ s.marked_plus = SumOver(marked, PlusOfChain)
       /\ s.marked_minus = SumOver(marked, MinusOfChain)
       /\ s.not_marked_plus = SumOver(others, PlusOfChain)
       /\ s.not_marked_minus = SumOver(others, MinusOfChain)
       /\ s.marked_plus >= 0 /\ s.not_marked_plus >= 0
       /\ s.marked_minus <= 0 /\ s.not_marked_minus <= 0
       /\ s.marked_plus + s.marked_minus = SumOver(marked, LastDiffOfChain)
       /\ s.not_marked_plus + s.not_marked_minus = SumOver(others, LastDiffOfChain)
       /\ s.marked_total = SumOver(marked, EffectiveOfChain)
       /\ s.not_marked_total = SumOver(others, EffectiveOfChain)

(* A category with a chain over its declared hour and a chain under it *)
C13_Witness ==
    \/ summary(Live).marked_plus > 0 /\ summary(Live).marked_minus < 0
    \/ summary(Live).not_marked_plus > 0 /\ summary(Live).not_marked_minus < 0

----------------------------------------------------------------------------
(* The specification of break insertion: the controller is constructed from
   a saved document of at most one entry; the user sets the break title and
   the continue-after-break box, presses Break at 10:00 or at 10:15, and
   undoes and redoes *)

BreakNowTexts == {10 * 60, 10 * 60 + 15}
BreakTitles == {"", "x", "coffee"}

InitBreak ==
    \E n \in 0..1, name \in Names, end_str \in {NoText, 9 * 60 + 30},
       cab \in BOOLEAN :
        Loaded([i \in 1..n |-> DocLog(name, 9 * 60, end_str, i - 1, FALSE, DefaultPlan)],
               <<>>, cab, "")

NextBreak ==
    \/ \E t \in BreakNowTexts :
           (Len(logs) = 0 \/ LogsRoom(2)) /\ Press(on_break_button_click(t))
    \/ Edit(on_continue_after_break_change)
    \/ \E title \in BreakTitles : Edit(break_text_edit(title))
    \/ Edit(on_undo_button_click)
    \/ Edit(on_redo_button_click)

SpecBreak == InitBreak /\ [][NextBreak]_vars

(* The fields of an entry the claim speaks of *)
Fields(log) ==
    [name |-> log.name, start_str |-> log.start_str, end_str |-> log.end_str,
     index |-> log.index, is_continued |-> log.is_continued]

(* C14: Break on a non-empty list whose last entry has name N and end text
   E, at time T with title B and flag c, appends exactly two entries, first
   {name B, start E, end T, not continued, index len}, then {name N, start
   T, end empty, is_continued c, index len + 1}, after registering an undo
   snapshot; on an empty list it changes nothing: no entry, no snapshot. *)
C14_BreakInsertion ==
    [][\A t \in BreakNowTexts :
          /\ (on_break_button_click(t) /\ Len(logs) > 0) =>
                 /\ Len(logs') = Len(logs) + 2
                 /\ \A i \in Positions : Fields(logs'[i]) = Fields(logs[i])
                 /\ Fields(logs'[Len(logs) + 1]) =
                        [name |-> break_text, start_str |-> Last(logs).end_str,
                         end_str |-> t, index |-> Len(logs), is_continued |-> FALSE]
                 /\ Fields(logs'[Len(logs) + 2]) =
                        [name |-> Last(logs).name, start_str |-> t,
                         end_str |-> NoText, index |-> Len(logs) + 1,
                         is_continued |-> continue_after_break]
                 /\ undo_stack' = Append(undo_stack, State(logs, plans))
          /\ (on_break_button_click(t) /\ Len(logs) = 0) =>
                 UNCHANGED <<logs, plans, undo_stack, redo_stack, previous_logs, file>>]_vars

(* A break titled coffee was inserted at 10:15 after an entry that ended at
   09:30, and the activity is continued *)
C14_Witness ==
    /\ Len(logs) = 3
    /\ Fields(logs[2]) = [name |-> "coffee", start_str |-> 9 * 60 + 30,
                          end_str |-> 10 * 60 + 15, index |-> 1, is_continued |-> FALSE]
    /\ Fields(logs[3]) = [name |-> logs[1].name, start_str |-> 10 * 60 + 15,
                          end_str |-> NoText, index |-> 2, is_continued |-> TRUE]
    /\ logs[3].plan = logs[1].plan
    /\ undo_stack # <<>>

----------------------------------------------------------------------------
(* The specification of the archive: the controller is constructed from a
   saved document whose archive is empty or holds 999 or 1000 entries, and
   whose list holds up to MaxLogs entries; the user appends entries,
   renames the first entry, clears the list and undoes *)

ArchiveSizes == {0, ArchiveLimit - 1, ArchiveLimit}

InitClear ==
    \E n \in 0..MaxLogs, a \in ArchiveSizes :
        Loaded([i \in 1..n |-> DocLog("x", NoText, NoText, i - 1, FALSE, DefaultPlan)],
               [k \in 1..a |-> DocLog("y", NoText, NoText, k - 1, FALSE, DefaultPlan)],
               TRUE, "")

NextClear ==
    \/ LogsRoom(1) /\ Press(on_plus_button_click)
    \/ Press(on_clear_button_click)
    \/ \E n \in Names : Edit(on_name_change(1, n))
    \/ Edit(on_undo_button_click)

SpecClear == InitClear /\ [][NextClear]_vars

(* C15: Clear empties the list and archives it: afterwards previous_logs is
   the cleared list in reverse (latest entry first) followed by the former
   archive, cut to its first ArchiveLimit = 1000 entries, so the archive
   never grows beyond 1000 entries by a clear. *)
C15_ClearArchives ==
    [][on_clear_button_click =>
          /\ logs' = <<>>
          /\ Len(previous_logs') =
                 Min({Len(logs) + Len(previous_logs), ArchiveLimit})
          /\ \A k \in 1..Len(previous_logs') :
                 previous_logs'[k] =
                     IF k <= Len(logs)
                     THEN log_dic(logs, plans, Len(logs) + 1 - k)
                     ELSE previous_logs[k - Len(logs)]
          /\ Len(previous_logs') <= ArchiveLimit
          /\ undo_stack' = Append(undo_stack, State(logs, plans))]_vars

(* A list of three entries was cleared into an archive that was full: the
   three are at the front, latest first, and the oldest three are gone *)
C15_Witness ==
    /\ logs = <<>>
    /\ Len(previous_logs) = ArchiveLimit
    /\ previous_logs[1].index = 2 /\ previous_logs[2].index = 1
    /\ previous_logs[3].index = 0
    /\ previous_logs[4].name = "y" /\ previous_logs[4].index = 0
    /\ previous_logs[ArchiveLimit].index = ArchiveLimit - 4
    /\ undo_stack # <<>>

----------------------------------------------------------------------------
(* The specification of the list as a whole: the controller is constructed
   from a saved document of up to MaxLogs entries; the user edits the fields
   of the first entry and continues the others while no snapshot is
   registered, and presses the buttons of the controller; callers use
   set_logs *)

NoSnapshot == undo_stack = <<>> /\ redo_stack = <<>>

InitList ==
    \E n \in 0..MaxLogs :
        Loaded([i \in 1..n |-> DocLog("x", NoText, NoText, i - 1, FALSE, DefaultPlan)],
               <<>>, TRUE, "")

NextList ==
    \/ LogsRoom(1) /\ Press(on_plus_button_click)
    \/ Press(on_remove_marks_click)
    \/ ArchiveRoom /\ Press(on_clear_button_click)
    \/ Edit(on_undo_button_click)
    \/ Edit(on_redo_button_click)
    \/ (Len(logs) = 0 \/ LogsRoom(2)) /\ Press(on_break_button_click(NowText))
    \/ \E dics \in SetLogsInputs : Press(set_logs(dics))
    \/ NoSnapshot /\ Edit(on_check(1))
    \/ \E i \in Positions \ {1} : NoSnapshot /\ Edit(on_continue_check(i))
    \/ \E n \in Names : NoSnapshot /\ Edit(on_name_change(1, n))
    \/ NoSnapshot /\ Edit(on_start_change(1, NowText))
    \/ NoSnapshot /\ Edit(on_end_change(1, NowText))
    \/ NoSnapshot /\ Edit(on_first_duration_change(1, <<"3", "0">>))
    \/ NoSnapshot /\ Edit(on_last_duration_change(1, <<"2", "h">>))

SpecList == InitList /\ [][NextList]_vars

(* Every entry of the list is still at its position (an entry is known by
   its index: the entries of a list have the indices 0, 1, 2, ...) *)
EntriesKept ==
    /\ Len(logs') >= Len(logs)
    /\ \A i \in Positions : logs'[i].index = logs[i].index

(* C16: entries leave the list only through Clear, Undo, Redo or set_logs:
   every other step (field edits, append, Break, Remove marks, each with its
   reconciliation pass) keeps all entries in the list, in their order, and
   extends the list at its end only. *)
C16_EntriesLeaveOnlyByClearUndoSetLogs ==
    [][~EntriesKept =>
          \/ on_clear_button_click
          \/ on_undo_button_click
          \/ on_redo_button_click
          \/ \E dics \in SetLogsInputs : set_logs(dics)]_vars

(* The list was extended by Break after the first entry was edited *)
C16_Witness ==
    /\ Len(logs) = 3
    /\ \A i \in Positions : logs[i].index = i - 1
    /\ logs[1].name = "y" /\ logs[1].end_str = NowText
    /\ logs[2].start_str = NowText
    /\ undo_stack # <<>>

----------------------------------------------------------------------------
(* Persistence round trip *)

(* The list a new controller holds after it loaded the document doc:
   parse_log for every entry, then update(RESET) *)
loaded_logs(doc) == Normalize(update_link(parse_logs(doc.logs), doc.previous_logs))

(* The partition of the entries of a list into plan sharers *)
PlanPartition(st) ==
    {{j \in 1..Len(st.logs) : st.logs[j].plan = st.logs[i].plan} : i \in 1..Len(st.logs)}

(* C17: a new controller that loads the document saved from a reconciled
   state holds an entry list with the same names, start and end texts,
   indices, is_continued flags and plan field values per entry, the same
   previous/next links and the same partition into plan-sharing chains. *)
C17_PersistenceRoundTrip ==
    pass_ran =>
        LET new == loaded_logs(file)
        IN /\ Len(new.logs) = Len(logs)
           /\ \A i \in Positions :
                  /\ Fields(new.logs[i]) = Fields(logs[i])
                  /\ new.plans[new.logs[i].plan] = plans[logs[i].plan]
                  /\ new.logs[i].previous_log = logs[i].previous_log
                  /\ new.logs[i].next_log = logs[i].next_log
           /\ PlanPartition(new) = PlanPartition(Live)
           /\ file.previous_logs = previous_logs

(* A saved state with a chain of two, an entry of another name, a declared
   duration and a mark inherited from the archive *)
C17_Witness ==
    /\ pass_ran
    /\ Len(logs) = 3
    /\ \E i, j \in Positions : i # j /\ logs[i].plan = logs[j].plan
    /\ \E i \in Positions : logs[i].name = "y"
    /\ plans[logs[1].plan].first_duration # <<>>
    /\ \E i \in Positions : plans[logs[i].plan].is_marked
                            /\ ~plans[logs[i].plan].is_mark_set
    /\ file = save(logs, plans, previous_logs, continue_after_break, break_text)

----------------------------------------------------------------------------
(* Loading.  The content of the file is either a document save() wrote or a
   content put there from outside.  A content has a kind: "missing" (no
   file at the path), "garbage" (not JSON), "nondict" (JSON, but not an
   object) or "dict"; a dict content has a set of top-level keys, and its
   "logs" and "previous_logs" are lists of items or values that are not
   lists.  An item has a shape: "ok" (an object with all keys, of the types
   save() writes), "not_dict", "missing_key" (an object without "index"),
   "plan_not_dict", or "start_not_str" (start_str is a number). *)

TopLevelKeys == {"logs", "previous_logs", "continue_after_break", "highlights",
                 "break_title"}

Item(shape, dic) == [shape |-> shape, dic |-> dic]

Content(kind, keys, logs_is_list, items, previous_is_list, previous_items, cab, title) ==
    [kind |-> kind, keys |-> keys,
     logs_is_list |-> logs_is_list, logs |-> items,
     previous_is_list |-> previous_is_list, previous_logs |-> previous_items,
     continue_after_break |-> cab, break_title |-> title]

(* The content of a file that holds a document of save() *)
content_of(f) ==
    IF "kind" \in DOMAIN f THEN f
    ELSE Content("dict", TopLevelKeys,
                 TRUE, [i \in 1..Len(f.logs) |-> Item("ok", f.logs[i])],
                 TRUE, [i \in 1..Len(f.previous_logs) |-> Item("ok", f.previous_logs[i])],
                 f.continue_after_break, f.break_title)

(* parse_log: None for an item that is not an object, lacks a key or has a
   plan that is not an object; the constructor of LogItem calls
   parse_time(start_str), whose strip() raises AttributeError on a value
   that is not a string *)
parse_log(item) ==
    IF item.shape = "ok" THEN [outcome |-> "log", log |-> item.dic]
    ELSE IF item.shape = "start_not_str" THEN [outcome |-> "AttributeError", log |-> item.dic]
    ELSE [outcome |-> "None", log |-> item.dic]

(* The loop over a list of items: the entries parsed before an exception *)
RECURSIVE parse_items(_, _, _)
parse_items(items, k, acc) ==
    IF k > Len(items) THEN [outcome |-> "done", logs |-> acc]
    ELSE LET r == parse_log(items[k])
         IN IF r.outcome = "log" THEN parse_items(items, k + 1, Append(acc, r.log))
            ELSE IF r.outcome = "None" THEN parse_items(items, k + 1, acc)
            ELSE [outcome |-> r.outcome, logs |-> acc]

(* What __init__ holds in _logs, _previous_logs, _continue_after_break and
   _break_title after the try statement, and whether an exception escaped
   it (OSError, JSONDecodeError and KeyError are caught) *)
load(c) ==
    LET defaults == [raised |-> FALSE, logs |-> <<>>, previous_logs |-> <<>>,
                     continue_after_break |-> TRUE, break_title |-> ""]
        ls == IF c.logs_is_list THEN parse_items(c.logs, 1, <<>>)
              ELSE [outcome |-> "done", logs |-> <<>>]
        ps == IF c.previous_is_list THEN parse_items(c.previous_logs, 1, <<>>)
              ELSE [outcome |-> "done", logs |-> <<>>]
        s1 == [defaults EXCEPT !.logs = ls.logs]
        s2 == [s1 EXCEPT !.previous_logs = ps.logs]
        s3 == [s2 EXCEPT !.continue_after_break = c.continue_after_break]
    IN IF c.kind # "dict" THEN defaults
       ELSE IF "logs" \notin c.keys THEN defaults
       ELSE IF ls.outcome = "AttributeError" THEN [s1 EXCEPT !.raised = TRUE]
       ELSE IF ls.outcome = "KeyError" THEN s1
       ELSE IF "previous_logs" \notin c.keys THEN s1
       ELSE IF ps.outcome = "AttributeError" THEN [s2 EXCEPT !.raised = TRUE]
       ELSE IF ps.outcome = "KeyError" THEN s2
       ELSE IF "continue_after_break" \notin c.keys THEN s2
       ELSE IF "highlights" \notin c.keys THEN s3
       ELSE IF "break_title" \notin c.keys THEN s3
       ELSE [s3 EXCEPT !.break_title = c.break_title]

(* A controller is constructed on the file: it loads the content,
   reconciles and saves; if the constructor raises there is no new
   controller and the file is not written *)
construct ==
    LET r == load(content_of(file))
        n == Normalize(update_link(parse_logs(r.logs), r.previous_logs))
    IN /\ UNCHANGED ioloop_vars /\ UNCHANGED codec_vars /\ UNCHANGED bonus_vars /\ UNCHANGED view_vars
       /\ IF r.raised
          THEN /\ load_error' = TRUE
               /\ UNCHANGED <<logs, plans, previous_logs, undo_stack, redo_stack,
                              undo_button, redo_button,
                              continue_after_break, break_text, file, pass_ran,
                              presses>>
          ELSE /\ load_error' = FALSE
               /\ logs' = n.logs /\ plans' = n.plans
               /\ previous_logs' = r.previous_logs
               /\ undo_stack' = <<>> /\ redo_stack' = <<>>
               /\ update_undo_redo(undo_stack', redo_stack')
               /\ continue_after_break' = r.continue_after_break
               /\ break_text' = r.break_title
               /\ Save
               /\ pass_ran' = TRUE
               /\ presses' = 0

(* The content of the file is replaced from outside *)
file_replaced(c) ==
    /\ file' = c
    /\ UNCHANGED <<logs, plans, previous_logs, undo_stack, redo_stack,
                   undo_button, redo_button,
                   continue_after_break, break_text, pass_ran, presses, load_error>>
    /\ UNCHANGED ioloop_vars /\ UNCHANGED codec_vars /\ UNCHANGED bonus_vars /\ UNCHANGED view_vars

(* The contents: no document, and the document of two entries and an
   archived one in which one thing is wrong: a top-level key is missing,
   "logs" is not a list, or the first or the second item has a wrong shape *)
OkItem(name, index, marked) ==
    Item("ok", DocLog(name, NoText, NoText, index, FALSE,
                      TwoStagePlanItem(<<>>, <<>>, marked, marked)))
ItemShapes == {"ok", "not_dict", "missing_key", "plan_not_dict", "start_not_str"}
ShapePairs == {pair \in ItemShapes \X ItemShapes : pair[1] = "ok" \/ pair[2] = "ok"}

(* A complete, well-typed document whose entries carry "index" values that
   are not their positions in the "logs" array *)
ForeignIndexes ==
    Content("dict", TopLevelKeys, TRUE,
            <<OkItem("x", 1, TRUE), OkItem("y", 0, FALSE)>>,
            TRUE, <<>>, TRUE, "")

FileContents ==
    {Content(kind, {}, TRUE, <<>>, TRUE, <<>>, TRUE, "") :
         kind \in {"missing", "garbage", "nondict"}}
    \cup {Content("dict", TopLevelKeys \ missing, TRUE,
                  <<OkItem("x", 0, TRUE), OkItem("y", 1, FALSE)>>,
                  TRUE, <<OkItem("x", 0, TRUE)>>, FALSE, "b") :
              missing \in {{}} \cup {{key} : key \in TopLevelKeys}}
    \cup {Content("dict", TopLevelKeys, is_list,
                  <<Item(shapes[1], OkItem("x", 0, TRUE).dic),
                    Item(shapes[2], OkItem("y", 1, FALSE).dic)>>,
                  TRUE, <<OkItem("x", 0, TRUE)>>, FALSE, "b") :
              is_list \in BOOLEAN, shapes \in ShapePairs}
    \cup {ForeignIndexes}

(* The content is not a complete, well-typed document *)
Malformed(c) ==
    \/ c.kind # "dict"
    \/ c.keys # TopLevelKeys
    \/ ~c.logs_is_list \/ ~c.previous_is_list
    \/ \E i \in 1..Len(c.logs) : c.logs[i].shape # "ok"
    \/ \E i \in 1..Len(c.previous_logs) : c.previous_logs[i].shape # "ok"

(* The specification of loading: the file is replaced from outside, a
   controller is constructed on it, and the user marks the first entry and
   appends *)
InitLoad == Loaded(<<>>, <<>>, TRUE, "")

NextLoad ==
    \/ \E c \in FileContents : file_replaced(c)
    \/ construct
    \/ Edit(on_check(1))
    \/ LogsRoom(1) /\ Press(on_plus_button_click)

SpecLoad == InitLoad /\ [][NextLoad]_vars

(* C18: loading never raises to the caller, and a load that fails (missing
   file, content that is not JSON or not an object, a missing top-level
   key, an entry with missing keys or wrongly typed values) leaves the
   controller with empty logs, empty archive and default auxiliary values:
   nothing is loaded in part. *)
C18_LoadDegrades ==
    [][construct =>
          /\ ~load_error'
          /\ Malformed(content_of(file)) =>
                 /\ logs' = <<>>
                 /\ previous_logs' = <<>>
                 /\ continue_after_break' = TRUE
                 /\ break_text' = ""]_vars

(* What holds: a content that is no JSON object, or an object without
   "logs", gives the empty default state *)
LoadDegradesWithoutLogs ==
    [][(construct /\ (content_of(file).kind # "dict"
                      \/ "logs" \notin content_of(file).keys)) =>
          /\ ~load_error'
          /\ logs' = <<>>
          /\ previous_logs' = <<>>
          /\ continue_after_break' = TRUE
          /\ break_text' = ""]_vars


----------------------------------------------------------------------------
(* The debounce wrapper (debounce.py) on the event loop.

   execute, the wrapper, adds one to the counter of its key, builds
   debounced_execute with that value as its default argument, and hands
   thread_safe to the event loop with add_callback.  The loop runs the
   callbacks in the order they were added; thread_safe adds a timeout at
   time.time() + delay_seconds, the loop's time when thread_safe runs.  A
   timeout runs when the loop's time has reached its deadline, as late as
   the loop gets to it.  debounced_execute calls f only if the counter of
   its key still has the value it was built with.

   clock counts steps of 50 ms.  called and executed are the histories of
   the calls of the wrappers and of the calls of f; a call is named by its
   position in called. *)

delay_seconds == 2
MaxCalls == 3
MaxClock == 4
Values == {"x", "y"}

(* The arguments of a call: the change for a function, the instance and the
   change for a method.  The first name field is given two texts, the other
   fields one. *)
Args(w) ==
    IF method(w) THEN {<<i, "x">> : i \in Instances}
    ELSE IF w = "name_1" THEN {<<v>> : v \in Values} ELSE {<<"x">>}

key_of_none(w, args) == NoKey
key_of(w, args) == IF method(w) THEN args[1] ELSE NoKey

execute(w, args) ==
    LET key == key_of(w, args)
        counter == counters[w][key] + 1
        id == Len(called) + 1
    IN /\ counters' = [counters EXCEPT ![w][key] = counter]
       /\ callbacks' = Append(callbacks, [id |-> id, w |-> w, key |-> key,
                                          counter |-> counter, args |-> args])
       /\ called' = Append(called, [w |-> w, args |-> args, at |-> clock])
       /\ UNCHANGED <<timeouts, clock, executed>>
       /\ UNCHANGED controller_vars /\ UNCHANGED codec_vars /\ UNCHANGED bonus_vars /\ UNCHANGED view_vars

thread_safe ==
    /\ callbacks # <<>>
    /\ LET c == Head(callbacks)
       IN timeouts' = timeouts \cup
              {[id |-> c.id, w |-> c.w, key |-> c.key, counter |-> c.counter,
                args |-> c.args, deadline |-> clock + delay_seconds]}
    /\ callbacks' = Tail(callbacks)
    /\ UNCHANGED <<counters, clock, called, executed>>
    /\ UNCHANGED controller_vars /\ UNCHANGED codec_vars /\ UNCHANGED bonus_vars /\ UNCHANGED view_vars

debounced_execute_unconditionally(t) ==
    /\ t \in timeouts
    /\ clock >= t.deadline
    /\ timeouts' = timeouts \ {t}
    /\ executed' = Append(executed, [id |-> t.id, w |-> t.w, args |-> t.args,
                                     at |-> clock, calls |-> Len(called)])
    /\ UNCHANGED <<counters, callbacks, clock, called>>
    /\ UNCHANGED controller_vars /\ UNCHANGED codec_vars /\ UNCHANGED bonus_vars /\ UNCHANGED view_vars
debounced_execute(t) ==
    /\ t \in timeouts
    /\ clock >= t.deadline
    /\ timeouts' = timeouts \ {t}
    /\ IF t.counter = counters[t.w][t.key]
       THEN executed' = Append(executed, [id |-> t.id, w |-> t.w, args |-> t.args,
                                          at |-> clock, calls |-> Len(called)])
       ELSE UNCHANGED executed
    /\ UNCHANGED <<counters, callbacks, clock, called>>
    /\ UNCHANGED controller_vars /\ UNCHANGED codec_vars /\ UNCHANGED bonus_vars /\ UNCHANGED view_vars

(* Time passes.  The clock stops at MaxClock, and does not go so far that
   the timeout of a waiting callback would fall behind MaxClock. *)
tick ==
    /\ clock < MaxClock
    /\ callbacks # <<>> => clock + 1 + delay_seconds <= MaxClock
    /\ clock' = clock + 1
    /\ UNCHANGED <<counters, callbacks, timeouts, called, executed>>
    /\ UNCHANGED controller_vars /\ UNCHANGED codec_vars /\ UNCHANGED bonus_vars /\ UNCHANGED view_vars

InitDebounce == Loaded(<<>>, <<>>, TRUE, "")

NextDebounce ==
    \/ \E w \in Wrappers : \E args \in Args(w) :
           /\ Len(called) < MaxCalls
           /\ clock + delay_seconds <= MaxClock
           /\ execute(w, args)
    \/ thread_safe
    \/ \E t \in timeouts : debounced_execute(t)
    \/ tick

(* The event loop runs every callback and every due timeout, and time
   passes *)
SpecDebounce ==
    /\ InitDebounce /\ [][NextDebounce]_vars
    /\ WF_vars(thread_safe)
    /\ WF_vars(\E t \in timeouts : debounced_execute(t))
    /\ WF_vars(tick)

CallIds == 1..Len(called)
ExecutedIds == {executed[k].id : k \in 1..Len(executed)}
WaitingIds == {callbacks[k].id : k \in 1..Len(callbacks)} \cup {t.id : t \in timeouts}

(* The logical field of a call: the wrapper, and the instance for a method *)
field_of(c) == <<c.w, IF method(c.w) THEN c.args[1] ELSE NoKey>>
field(i) == field_of(called[i])
LaterCalls(i) == {j \in CallIds : j > i /\ field(j) = field(i)}
Superseded(i) == LaterCalls(i) # {}
next_call(i) == CHOOSE j \in LaterCalls(i) : \A k \in LaterCalls(i) : j <= k

(* A burst: every call of the field but the first arrived before the delay
   of the call before it had elapsed *)
InBurst(i) == Superseded(i) /\ called[next_call(i)].at < called[i].at + delay_seconds
Quiet == callbacks = <<>> /\ timeouts = {}

Coalesced ==
    /\ \A k, m \in 1..Len(executed) : executed[k].id = executed[m].id => k = m
    /\ \A k \in 1..Len(executed) :
           /\ executed[k].id \in CallIds
           /\ executed[k].w = called[executed[k].id].w
           /\ executed[k].args = called[executed[k].id].args
           /\ executed[k].at >= called[executed[k].id].at + delay_seconds
    /\ \A i \in CallIds : InBurst(i) => i \notin ExecutedIds
    /\ Quiet => \A i \in CallIds : ~Superseded(i) => i \in ExecutedIds

SupersededNeverRuns ==
    \A t \in timeouts :
        (t \notin timeouts' /\ Superseded(t.id)) => executed' = executed

(* C19: within one field, a call followed by the next one before its delay
   elapsed is not executed, so a burst is executed at most once, and once
   the loop is quiet exactly once: f runs for the last call, with that
   call's arguments, no earlier than delay_seconds after it; a timeout that
   fires after a later call of its field never runs f; each call is in the
   end executed or superseded, so the last one is executed *)
C19_DebounceCoalescing ==
    /\ []Coalesced
    /\ [][SupersededNeverRuns]_vars
    /\ \A i \in 1..MaxCalls :
           (i \in CallIds) ~> (i \in ExecutedIds \/ Superseded(i))

(* A burst of two calls with different arguments was executed once, for the
   second call *)
C19_Witness ==
    /\ Quiet
    /\ \E i, j \in CallIds :
           /\ InBurst(i) /\ j = next_call(i) /\ ~Superseded(j)
           /\ called[i].args # called[j].args
           /\ j \in ExecutedIds /\ i \notin ExecutedIds


(* A call that is neither waiting nor executed: its timeout ran without f *)
Dropped(i) == i \notin WaitingIds /\ i \notin ExecutedIds

OwnCounterOnly ==
    \A w \in Wrappers, k \in Keys :
        counters'[w][k] # counters[w][k] =>
            /\ Len(called') = Len(called) + 1
            /\ <<w, k>> = field_of(called'[Len(called) + 1])

LatestRuns ==
    \A t \in timeouts :
        (t \notin timeouts' /\ ~Superseded(t.id)) => t.id \in ExecutedIds'

(* C20: a call changes the counter of its own field only (its wrapper, and
   its instance for a method), so the calls of other fields made while a
   call waits do not cancel it: when its timeout runs and no later call of
   its own field was made, f is executed, and a call is dropped only if a
   later call of its own field exists *)
C20_FieldsIndependent ==
    /\ [](\A i \in CallIds : Dropped(i) => Superseded(i))
    /\ [][OwnCounterOnly]_vars
    /\ [][LatestRuns]_vars

(* A call was executed although a call of another field was made during
   its delay, before it ran: for another wrapper, and for another instance
   of the method *)
OvertakenBy(i, j) ==
    /\ j > i /\ field(j) # field(i)
    /\ called[j].at < called[i].at + delay_seconds
    /\ \E k \in 1..Len(executed) : executed[k].id = i /\ executed[k].calls >= j
C20_Witness ==
    /\ \E i, j \in CallIds : OvertakenBy(i, j) /\ called[i].w # called[j].w
    /\ \E i, j \in CallIds : OvertakenBy(i, j) /\ called[i].w = called[j].w


----------------------------------------------------------------------------
(* The duration codec as a function: a number of seconds is given to
   duration_str (the item box shows total_duration() and the differences
   this way), a text is typed into a duration field, and parse_duration is
   applied to the text *)

MaxDays == 2

Seconds ==
    {sign * (((d * 24 + h) * 60 + m) * 60 + s) :
        sign \in {1, 0 - 1}, d \in 0..MaxDays, h \in {0, 1, 23}, m \in {0, 1, 59},
        s \in {0, 30}}

TypedTexts ==
    { <<>>, <<"0">>, <<"5">>, <<"3", "0", "m">>, <<"2", "h">>,
      <<"2", "h", "3", "0", "m">>, <<"1", "d", "2", "h", "3", "m">>,
      <<"-", "1", "h">>, <<"x">>, <<"h">>,
      <<"x", "h", "3", "0", "m">>, <<"1", "h", "x", "m">>, <<"x", "d", "2", "h">>,
      <<"1", "d", "x", "h">>, <<"1", "h", "2", "h", "3", "0">>,
      <<"1", "d", "1", "d", "5">>, <<"5", "m", "m">>, <<"1", "h", "5", "m", "2", "m">> }

show(x) ==
    /\ given_seconds' = x
    /\ duration_text' = duration_str(x)
    /\ shown' = TRUE
    /\ parsed' = <<>>
    /\ UNCHANGED controller_vars /\ UNCHANGED ioloop_vars /\ UNCHANGED bonus_vars /\ UNCHANGED view_vars

type(text) ==
    /\ duration_text' = text
    /\ shown' = FALSE
    /\ parsed' = <<>>
    /\ UNCHANGED given_seconds
    /\ UNCHANGED controller_vars /\ UNCHANGED ioloop_vars /\ UNCHANGED bonus_vars /\ UNCHANGED view_vars

parse ==
    /\ parsed' = <<parse_duration(duration_text)>>
    /\ UNCHANGED <<given_seconds, duration_text, shown>>
    /\ UNCHANGED controller_vars /\ UNCHANGED ioloop_vars /\ UNCHANGED bonus_vars /\ UNCHANGED view_vars

InitCodec ==
    /\ Constructed(<<>>, <<>>, TRUE, "")
    /\ ioloop_idle
    /\ bonus_formula = <<>>
    /\ views_idle
    /\ given_seconds \in Seconds
    /\ duration_text = duration_str(given_seconds)
    /\ shown = TRUE
    /\ parsed = <<>>

NextCodec ==
    \/ \E x \in Seconds : show(x)
    \/ \E text \in TypedTexts : type(text)
    \/ parse

SpecCodec == InitCodec /\ [][NextCodec]_vars

(* C21: for every duration that is not negative and a whole number of
   minutes, parsing the text duration_str makes of it gives the duration
   back *)
C21_CodecRoundTrip ==
    (shown /\ parsed # <<>> /\ given_seconds >= 0 /\ given_seconds % MinuteSeconds = 0)
        => parsed[1] = Some(given_seconds)

(* Round trips happened for zero, for a duration with a zero hour and a
   zero minute component, and for one of a day or more *)
C21_Witness ==
    /\ shown /\ parsed # <<>>
    /\ given_seconds = 2 * DaySeconds + 59 * MinuteSeconds
    /\ duration_text = <<"2", "d", "0", "h", "5", "9">>
    /\ parsed[1] = Some(given_seconds)


(* The components of a duration text: the text before a unit letter, from
   the sign or the unit letter before it on *)
UnitLetters == {"d", "h", "m"}
Unsigned(text) ==
    IF text # <<>> /\ text[1] = "-" THEN SubSeq(text, 2, Len(text)) ELSE text
ComponentBefore(text, p) ==
    LET before == {k \in 1..(p - 1) : text[k] \in UnitLetters}
    IN SubSeq(text, IF before = {} THEN 1 ELSE Max(before) + 1, p - 1)
MalformedComponent(text) ==
    LET t == Unsigned(text)
    IN \/ \E u \in UnitLetters : SplitLen(t, u) > 2
       \/ \E p \in 1..Len(t) : t[p] \in UnitLetters /\ float(ComponentBefore(t, p)) = None

(* C22: parse_duration gives None for every text in which a component is
   malformed: the text before a unit letter is no number, or a unit letter
   occurs more than once *)
C22_MalformedIsAbsent ==
    (~shown /\ parsed # <<>> /\ MalformedComponent(duration_text)) => parsed[1] = None

(* What holds instead: None is returned only for a text with a malformed
   component, or for a text without unit letter that is no number *)
AbsentOnlyWithoutAnyNumber ==
    (parsed # <<>> /\ parsed[1] = None) =>
        LET t == Unsigned(duration_text)
        IN \/ MalformedComponent(duration_text)
           \/ float(t) = None /\ \A p \in 1..Len(t) : t[p] \notin UnitLetters


----------------------------------------------------------------------------
(* The duration of an entry, over start and end texts from midnight to the
   last minute of the day, unreadable texts and empty ones *)

ClockTexts == {NoText, BadText, 0, 9 * 60, 9 * 60 + 30, 23 * 60 + 59}

InitDuration ==
    \E n \in 1..2 :
        \E ss \in [1..n -> {NoText, 9 * 60}], es \in [1..n -> {NoText, 9 * 60 + 30}] :
            Loaded([i \in 1..n |-> DocLog("x", ss[i], es[i], i - 1, FALSE, DefaultPlan)],
                   <<>>, TRUE, "")

NextDuration ==
    \/ \E i \in Positions, t \in ClockTexts : Edit(on_start_change(i, t))
    \/ \E i \in Positions, t \in ClockTexts : Edit(on_end_change(i, t))
    \/ \E i \in Positions \ {1} : Edit(on_continue_check(i))

SpecDuration == InitDuration /\ [][NextDuration]_vars

(* The minute of the day a time text names, when it names one *)
IsClockText(t) == t >= 0 /\ t < 24 * 60

(* C23: the duration of an entry is end - start in seconds when both times
   are present and the end is not before the start, 24 hours more when the
   end is before the start, and 0 when a time is absent; so it is never
   negative and less than a day, and 0 for equal times *)
C23_Duration ==
    \A i \in Positions :
        LET s == logs[i].start_str
            e == logs[i].end_str
            d == duration(logs[i])
        IN /\ (IsClockText(s) /\ IsClockText(e) /\ e >= s) => d = (e - s) * MinuteSeconds
           /\ (IsClockText(s) /\ IsClockText(e) /\ e < s) =>
                  d = (e - s) * MinuteSeconds + 24 * HourSeconds
           /\ (~IsClockText(s) \/ ~IsClockText(e)) => d = 0
           /\ 0 <= d /\ d < DaySeconds
           /\ s = e => d = 0

(* An entry from 23:59 to 00:00 lasts a minute, one with an unreadable
   start lasts nothing *)
C23_Witness ==
    /\ Len(logs) = 2
    /\ logs[1].start_str = 23 * 60 + 59 /\ logs[1].end_str = 0
    /\ duration(logs[1]) = MinuteSeconds
    /\ logs[2].start_str = BadText /\ logs[2].end_str = 9 * 60
    /\ duration(logs[2]) = 0


----------------------------------------------------------------------------
(* The bonus evaluator.  The formula is an arithmetic expression over a
   fixed set of variables: numbers, names, + - * /, parentheses.  It is
   evaluated against the summary; a failure is caught and becomes the
   status "Error: <message>".  A formula is the sequence of its tokens;
   the values are whole seconds and / is the division of whole numbers. *)

VariableNames ==
    {"plan_time", "previous_bonus", "marked_plus", "marked_minus", "marked_total",
     "not_marked_plus", "not_marked_minus", "not_marked_total"}
NumberTokens == {"0", "1", "2"}
NumberValue(tok) == IF tok = "0" THEN 0 ELSE IF tok = "1" THEN 1 ELSE 2
Identifiers == VariableNames \cup {"foo"}

(* The variables of an evaluation: the buckets of the summary, and the two
   fields plan_time and previous_bonus, left empty *)
bonus_variables(st) ==
    LET s == summary(st)
    IN [name \in VariableNames |->
          IF name = "marked_plus" THEN s.marked_plus
          ELSE IF name = "marked_minus" THEN s.marked_minus
          ELSE IF name = "marked_total" THEN s.marked_total
          ELSE IF name = "not_marked_plus" THEN s.not_marked_plus
          ELSE IF name = "not_marked_minus" THEN s.not_marked_minus
          ELSE IF name = "not_marked_total" THEN s.not_marked_total
          ELSE 0]

(* A step of the evaluation: the position of the next token, the value so
   far, and the message of the failure, "" when there is none *)
Value(pos, value) == [pos |-> pos, value |-> value, message |-> ""]
Failure(pos, message) == [pos |-> pos, value |-> 0, message |-> message]
TokenAt(toks, pos) == IF pos <= Len(toks) THEN toks[pos] ELSE "end"

RECURSIVE eval_expression(_, _, _), eval_term(_, _, _), eval_factor(_, _, _),
          eval_sums(_, _, _), eval_products(_, _, _)

eval_factor(toks, variables, pos) ==
    LET tok == TokenAt(toks, pos)
    IN IF tok \in NumberTokens THEN Value(pos + 1, NumberValue(tok))
       ELSE IF tok \in VariableNames THEN Value(pos + 1, variables[tok])
       ELSE IF tok \in Identifiers THEN Failure(pos, "name is not defined")
       ELSE IF tok = "("
       THEN LET inner == eval_expression(toks, variables, pos + 1)
            IN IF inner.message # "" THEN inner
               ELSE IF TokenAt(toks, inner.pos) = ")"
               THEN Value(inner.pos + 1, inner.value)
               ELSE Failure(inner.pos, "invalid syntax")
       ELSE Failure(pos, "invalid syntax")

(* Mutant: a division by zero is not a failure and gives 0 *)
eval_products_zero(toks, variables, left) ==
    LET tok == TokenAt(toks, left.pos)
    IN IF left.message # "" \/ tok \notin {"*", "/"} THEN left
       ELSE LET right == eval_factor(toks, variables, left.pos + 1)
            IN IF right.message # "" THEN right
               ELSE IF tok = "/" /\ right.value = 0
               THEN eval_products(toks, variables, Value(right.pos, 0))
               ELSE eval_products(toks, variables,
                        Value(right.pos, IF tok = "*" THEN left.value * right.value
                                         ELSE left.value \div right.value))

eval_products(toks, variables, left) ==
    LET tok == TokenAt(toks, left.pos)
    IN IF left.message # "" \/ tok \notin {"*", "/"} THEN left
       ELSE LET right == eval_factor(toks, variables, left.pos + 1)
            IN IF right.message # "" THEN right
               ELSE IF tok = "/" /\ right.value = 0
               THEN Failure(right.pos, "division by zero")
               ELSE eval_products(toks, variables,
                        Value(right.pos, IF tok = "*" THEN left.value * right.value
                                         ELSE left.value \div right.value))

eval_term(toks, variables, pos) ==
    eval_products(toks, variables, eval_factor(toks, variables, pos))

eval_sums(toks, variables, left) ==
    LET tok == TokenAt(toks, left.pos)
    IN IF left.message # "" \/ tok \notin {"+", "-"} THEN left
       ELSE LET right == eval_term(toks, variables, left.pos + 1)
            IN IF right.message # "" THEN right
               ELSE eval_sums(toks, variables,
                        Value(right.pos, IF tok = "+" THEN left.value + right.value
                                         ELSE left.value - right.value))

eval_expression(toks, variables, pos) ==
    eval_sums(toks, variables, eval_term(toks, variables, pos))

(* The evaluator: the status shown for the formula *)
evaluate_bonus(toks, variables) ==
    LET r == eval_expression(toks, variables, 1)
    IN IF r.message # "" THEN [error |-> TRUE, message |-> r.message, bonus |-> 0]
       ELSE IF r.pos # Len(toks) + 1
       THEN [error |-> TRUE, message |-> "invalid syntax", bonus |-> 0]
       ELSE [error |-> FALSE, message |-> "", bonus |-> r.value]

bonus_status == evaluate_bonus(bonus_formula, bonus_variables(State(logs, plans)))

(* The formula field is edited *)
on_bonus_formula_change(toks) ==
    /\ toks # bonus_formula
    /\ bonus_formula' = toks
    /\ UNCHANGED controller_vars /\ UNCHANGED ioloop_vars /\ UNCHANGED codec_vars
    /\ UNCHANGED view_vars

GoodFormulas ==
    { <<"not_marked_total">>, <<"marked_total", "*", "2">>,
      <<"(", "marked_plus", "-", "marked_minus", ")", "/", "2">>,
      <<"marked_total", "-", "not_marked_total", "-", "1">> }
FailingFormulas ==
    { <<"not_marked_total", "+", "1", "/", "0">>, <<"marked_total", "+">>,
      <<"(", "marked_total">>, <<"marked_total", "2">>, <<"foo", "+", "1">>,
      <<"1", "/", "(", "marked_total", "-", "marked_total", ")">> }

InitBonus ==
    \E n \in 1..2 :
        \E ends \in [1..n -> SummaryEndTexts] :
            Loaded([i \in 1..n |-> DocLog("x", 9 * 60, ends[i], i - 1, FALSE, DefaultPlan)],
                   <<>>, TRUE, "")

NextBonus ==
    \/ \E toks \in GoodFormulas \cup FailingFormulas \cup {<<>>} :
           on_bonus_formula_change(toks)
    \/ \E i \in Positions : Edit(on_check(i))
    \/ \E i \in Positions \ {1} : Edit(on_continue_check(i))
    \/ \E d \in SummaryDurationTexts : Edit(on_last_duration_change(1, d))

SpecBonus == InitBonus /\ [][NextBonus]_vars

(* C24: a formula that fails gives the status "Error: <message>" and no
   bonus, a formula that does not fail gives its value, and the evaluation
   of a formula, failing or not, leaves the entries, the plans and with them
   the chains, the durations and the summary as they were *)
C24_FormulaFailureIsStatus ==
    /\ [](/\ bonus_formula \in FailingFormulas \cup {<<>>} =>
                bonus_status.error /\ bonus_status.message # ""
          /\ bonus_formula \in GoodFormulas => ~bonus_status.error)
    /\ [][bonus_formula' # bonus_formula =>
              /\ logs' = logs /\ plans' = plans /\ file' = file
              /\ summary(State(logs', plans')) = summary(State(logs, plans))]_vars

(* The formula of the claim failed with a division by zero on a summary
   that is not empty, and the summary is still there *)
C24_Witness ==
    /\ bonus_formula = <<"not_marked_total", "+", "1", "/", "0">>
    /\ bonus_status.error /\ bonus_status.message = "division by zero"
    /\ summary(State(logs, plans)).not_marked_total > 0


----------------------------------------------------------------------------
(* C25: in every state in which an edit handler has returned (mark,
   continue, name, start, end, first or last duration), the mark-inheritance
   rule holds: every entry that is not continued and has no manual mark has
   the mark of the nearest preceding entry of its name, else of the archive
   match, else false *)
C25_MarksInheritedAfterEveryEdit == MarksInherited(Live, previous_logs)

(* What holds instead: the rule holds after the handlers that ran the pass,
   and the mark toggle of an entry outside every chain is the only edit
   after which it can fail *)
MarksStaleOnlyAfterUnlinkedCheck ==
    [][(MarksInherited(Live, previous_logs) /\ ~MarksInherited(Live, previous_logs)') =>
          \E i \in Positions :
              /\ ~is_in_list(logs[i])
              /\ plans'[logs'[i].plan].is_mark_set
              /\ plans'[logs'[i].plan].is_marked # plans[logs[i].plan].is_marked]_vars


----------------------------------------------------------------------------
(* Reconciliation over lists whose names differ in case only, loaded from
   documents with any is_continued flags, and edited *)

CaseNames == {"x", "X"}

LinkDocuments ==
    {Content("dict", TopLevelKeys, TRUE,
             [i \in 1..n |-> Item("ok", DocLog(names[i], NoText, NoText, i - 1,
                                               continued[i], DefaultPlan))],
             TRUE, <<>>, TRUE, "") :
         n \in 1..MaxLogs, names \in [1..MaxLogs -> CaseNames],
         continued \in [1..MaxLogs -> BOOLEAN]}

InitLink == Loaded(<<>>, <<>>, TRUE, "")

NextLink ==
    \/ \E c \in LinkDocuments : file_replaced(c)
    \/ construct
    \/ \E i \in Positions, n \in CaseNames : Edit(on_name_change(i, n))
    \/ \E i \in Positions : Edit(on_continue_check(i))

SpecLink == InitLink /\ [][NextLink]_vars

(* The entries before i with exactly the name of entry i *)
SameNamedBefore(ls, i) == {j \in 1..(i - 1) : ls[j].name = ls[i].name}

ContinuationRule(st) ==
    \A i \in 1..Len(st.logs) :
        /\ st.logs[i].is_continued =>
              /\ SameNamedBefore(st.logs, i) # {}
              /\ st.logs[i].previous_log = Max(SameNamedBefore(st.logs, i))
        /\ ~st.logs[i].is_continued => st.logs[i].previous_log = 0

(* C26: after reconciliation a continued entry has a same-named entry
   before it (names compared exactly) and its previous_log is the nearest
   one; an entry that is not continued has no previous_log; an entry that
   was continued and has no same-named entry before it after the pass, in a
   document that is loaded or after an edit, is not continued any more *)
C26_ContinuationRule ==
    /\ [](ContinuationRule(Reconciled) /\ (pass_ran => ContinuationRule(Live)))
    /\ [][construct =>
            LET doc == load(content_of(file)).logs
            IN /\ Len(logs') = Len(doc)
               /\ \A i \in 1..Len(doc) :
                     (doc[i].is_continued /\ SameNamedBefore(doc, i) = {})
                         => ~logs'[i].is_continued]_vars
    /\ [][\A i \in Positions :
            (/\ pass_ran' /\ Len(logs') = Len(logs) /\ logs[i].is_continued
             /\ SameNamedBefore(logs', i) = {}) => ~logs'[i].is_continued]_vars

(* The list x, X, x after a pass: the second entry is not continued, no
   entry before it has its name, and the third entry continues the first *)
C26_Witness ==
    /\ pass_ran
    /\ Len(logs) = 3
    /\ logs[1].name = "x" /\ logs[2].name = "X" /\ logs[3].name = "x"
    /\ ~logs[2].is_continued /\ logs[2].previous_log = 0
    /\ logs[3].is_continued /\ logs[3].previous_log = 1


(* C27: after reconciliation the chains follow the order of the list: the
   next_log of an entry is an entry of the list with the same name at a
   greater position, with no entry of that name between the two, and its
   previous_log is the entry; the previous_log of an entry is an entry of
   the list whose next_log is the entry *)
ChainsFollowOrder(st) ==
    \A i \in 1..Len(st.logs) :
        LET n == st.logs[i].next_log
            p == st.logs[i].previous_log
        IN /\ n # 0 =>
                 /\ n \in 1..Len(st.logs)
                 /\ st.logs[n].name = st.logs[i].name
                 /\ n > i
                 /\ \A k \in (i + 1)..(n - 1) : st.logs[k].name # st.logs[i].name
                 /\ st.logs[n].previous_log = i
           /\ p # 0 =>
                 /\ p \in 1..Len(st.logs)
                 /\ st.logs[p].next_log = i

C27_ChainsFollowOrder == ChainsFollowOrder(Reconciled) /\ ChainsFollowOrder(Live)

(* A chain that skips an entry of another name, in a session in which a
   button press has taken a snapshot *)
C27_Witness ==
    /\ undo_stack # <<>>
    /\ \E i \in Positions :
          /\ logs[i].next_log > i + 1
          /\ logs[logs[i].next_log].previous_log = i

----------------------------------------------------------------------------
(* The snapshots as objects.  The handlers above hold a snapshot as the value
   copy.deepcopy returns.  Here the same handlers run on the objects: every
   plan object has an address in heap, and the entries of the live list and
   of the snapshots name their plan and backup_plan by address, so that two
   lists can share an object.  Objects nothing references are collected, and
   the addresses are renumbered in the order of the references (live list,
   undo stack, redo stack). *)

ObjectGraph == State(live, heap)

RECURSIVE StackRefs(_)
StackRefs(stack) ==
    IF stack = <<>> THEN <<>> ELSE PlanRefs(stack[1]) \o StackRefs(Tail(stack))

Collect(lv, us, rs, hp) ==
    LET order == FirstRefs(PlanRefs(lv) \o StackRefs(us) \o StackRefs(rs), 1, <<>>)
        new_address == [p \in 1..Len(hp) |->
                           IF \E k \in 1..Len(order) : order[k] = p
                           THEN CHOOSE k \in 1..Len(order) : order[k] = p ELSE 0]
        moved(ls) == [i \in 1..Len(ls) |->
                         [ls[i] EXCEPT !.plan = new_address[ls[i].plan],
                                       !.backup_plan = new_address[ls[i].backup_plan]]]
    IN [live |-> moved(lv),
        undo |-> [k \in 1..Len(us) |-> moved(us[k])],
        redo |-> [k \in 1..Len(rs) |-> moved(rs[k])],
        heap |-> [n \in 1..Len(order) |-> hp[order[n]]]]

(* The handler leaves the live list lv, the stacks us and rs and the heap hp
   behind *)
CommitObjects(lv, us, rs, hp) ==
    LET c == Collect(lv, us, rs, hp)
    IN /\ live' = c.live /\ undo_objects' = c.undo /\ redo_objects' = c.redo
       /\ heap' = c.heap

(* Mutant: the entries are copied one by one with copy.copy, so the copies
   name the plan objects of the live list *)
deepcopy_objects_entries_only(ls, hp) == State(ls, hp)

(* copy.deepcopy(self.logs) on the objects: every plan object the list
   references gets one copy at a new address (an object referenced twice is
   copied once), and the copied entries name the copies.  The result is the
   copied list and the heap with the copies in it. *)
deepcopy_objects(ls, hp) ==
    LET order == FirstRefs(PlanRefs(ls), 1, <<>>)
        copy_of == [p \in 1..Len(hp) |->
                       IF \E k \in 1..Len(order) : order[k] = p
                       THEN Len(hp) + (CHOOSE k \in 1..Len(order) : order[k] = p)
                       ELSE 0]
    IN State([i \in 1..Len(ls) |->
                 [ls[i] EXCEPT !.plan = copy_of[ls[i].plan],
                               !.backup_plan = copy_of[ls[i].backup_plan]]],
             hp \o [k \in 1..Len(order) |-> hp[order[k]]])

on_remove_marks_click_objects ==
    LET c == deepcopy_objects(live, heap)
        s == update_link(
                 State(live, [p \in 1..Len(c.plans) |->
                                 IF \E i \in 1..Len(live) : live[i].plan = p
                                 THEN [c.plans[p] EXCEPT !.is_marked = FALSE,
                                                         !.is_mark_set = TRUE]
                                 ELSE c.plans[p]]),
                 previous_logs)
    IN CommitObjects(s.logs, Append(undo_objects, c.logs), <<>>, s.plans)

(* self.logs = self.undo_stack.pop(): the snapshot leaves the stack and is
   the live list *)
on_undo_button_click_objects ==
    IF Len(undo_objects) > 0
    THEN LET c == deepcopy_objects(live, heap)
             s == update_link(State(Last(undo_objects), c.plans), previous_logs)
         IN CommitObjects(s.logs, Front(undo_objects), Append(redo_objects, c.logs),
                          s.plans)
    ELSE UNCHANGED object_vars

on_redo_button_click_objects ==
    IF Len(redo_objects) > 0
    THEN LET c == deepcopy_objects(live, heap)
             s == update_link(State(Last(redo_objects), c.plans), previous_logs)
         IN CommitObjects(s.logs, Append(undo_objects, c.logs), Front(redo_objects),
                          s.plans)
    ELSE UNCHANGED object_vars

on_check_objects(i) ==
    LET p == live[i].plan
        s1 == State(live, [heap EXCEPT ![p].is_marked = ~heap[p].is_marked,
                                       ![p].is_mark_set = TRUE])
        s2 == IF is_in_list(live[i]) THEN update_link(s1, previous_logs) ELSE s1
    IN CommitObjects(s2.logs, undo_objects, redo_objects, s2.plans)

on_continue_check_objects(i) ==
    LET s == update_link(set_is_continued(ObjectGraph, i, ~live[i].is_continued),
                         previous_logs)
    IN CommitObjects(s.logs, undo_objects, redo_objects, s.plans)

on_name_change_objects(i, new_name) ==
    LET s == update_link(State([live EXCEPT ![i].name = new_name], heap), previous_logs)
    IN CommitObjects(s.logs, undo_objects, redo_objects, s.plans)

(* A handler and what it does to the objects, in one step *)
PressObjects(handler, handler_objects) ==
    /\ presses < MaxUndo /\ presses' = presses + 1 /\ handler /\ handler_objects
    /\ UNCHANGED load_error /\ UNCHANGED ioloop_vars /\ UNCHANGED codec_vars
    /\ UNCHANGED bonus_vars /\ UNCHANGED box_vars /\ UNCHANGED suspend_vars
EditObjects(handler, handler_objects) ==
    /\ handler /\ handler_objects
    /\ UNCHANGED <<presses, load_error>> /\ UNCHANGED ioloop_vars
    /\ UNCHANGED codec_vars /\ UNCHANGED bonus_vars /\ UNCHANGED box_vars
    /\ UNCHANGED suspend_vars

InitSnapshot ==
    /\ Constructed([i \in 1..2 |-> DocLog("x", NoText, NoText, i - 1, FALSE, DefaultPlan)],
                   <<>>, TRUE, "")
    /\ ioloop_idle /\ codec_idle /\ bonus_formula = <<>>
    /\ boxes = <<>> /\ update_queue = <<>> /\ feedback = FALSE
    /\ suspend_idle
    /\ live = logs /\ heap = plans /\ undo_objects = <<>> /\ redo_objects = <<>>

NextSnapshot ==
    \/ PressObjects(on_remove_marks_click, on_remove_marks_click_objects)
    \/ EditObjects(on_undo_button_click, on_undo_button_click_objects)
    \/ EditObjects(on_redo_button_click, on_redo_button_click_objects)
    \/ EditObjects(on_check(1), on_check_objects(1))
    \/ EditObjects(on_continue_check(2), on_continue_check_objects(2))
    \/ \E n \in Names : EditObjects(on_name_change(2, n), on_name_change_objects(2, n))

SpecSnapshot == InitSnapshot /\ [][NextSnapshot]_vars

(* What a list of objects looks like: its entries and the values of the
   plan objects they name *)
Seen(ls, hp) == Normalize(State(ls, hp))

(* The addresses a list names *)
Addresses(ls) == {ls[i].plan : i \in 1..Len(ls)} \cup {ls[i].backup_plan : i \in 1..Len(ls)}

Snapshots == undo_objects \o redo_objects

(* No snapshot names an object of the live list or of another snapshot *)
SnapshotsApart ==
    /\ \A k \in 1..Len(Snapshots) : Addresses(Snapshots[k]) \cap Addresses(live) = {}
    /\ \A k, l \in 1..Len(Snapshots) :
           k # l => Addresses(Snapshots[k]) \cap Addresses(Snapshots[l]) = {}

(* Inside a snapshot the members of a chain name one plan object, entries of
   different chains name different ones, and the links are positions of the
   snapshot that agree with each other *)
SnapshotsWhole ==
    \A k \in 1..Len(Snapshots) :
        /\ PlanSharedIffSameChain(State(Snapshots[k], heap))
        /\ LinksInList(Snapshots[k])
        /\ LinksMutual(Snapshots[k])

(* A snapshot that stays on its stack looks the same after the step, and a
   snapshot the step pushes looks as the live list did before the step *)
SnapshotsKept ==
    /\ \A k \in 1..Len(undo_objects) :
           k <= Len(undo_objects') =>
               Seen(undo_objects'[k], heap') = Seen(undo_objects[k], heap)
    /\ \A k \in 1..Len(redo_objects) :
           k <= Len(redo_objects') =>
               Seen(redo_objects'[k], heap') = Seen(redo_objects[k], heap)
    /\ Len(undo_objects') > Len(undo_objects) =>
           Seen(undo_objects'[Len(undo_objects')], heap') = Seen(live, heap)
    /\ Len(redo_objects') > Len(redo_objects) =>
           Seen(redo_objects'[Len(redo_objects')], heap') = Seen(live, heap)

(* The values on undo_stack and redo_stack are what the snapshots look like,
   and the list of the handlers above is what the live list looks like *)
SnapshotsAreValues ==
    /\ Seen(live, heap) = Live
    /\ undo_stack = [k \in 1..Len(undo_objects) |-> Seen(undo_objects[k], heap)]
    /\ redo_stack = [k \in 1..Len(redo_objects) |-> Seen(redo_objects[k], heap)]

(* C28: every snapshot on the undo or redo stack is a deep copy: it names no
   object of the live list or of another snapshot, it looks as the live list
   did when it was taken, no later step (a field edit, an edit of a shared
   plan, a reconciliation, Remove marks) changes what it looks like, and
   inside it the members of a chain share one plan object and the links are
   mutual positions of the snapshot *)
C28_SnapshotIsolation ==
    /\ [](SnapshotsApart /\ SnapshotsWhole /\ SnapshotsAreValues)
    /\ [][SnapshotsKept]_vars

(* A snapshot with a chain of two entries that share an unmarked plan is on
   the undo stack, while the live list has been edited since: its entries
   share a marked plan *)
C28_Witness ==
    /\ Len(undo_objects) > 0 /\ Len(live) >= 2
    /\ LET snap == undo_objects[1]
       IN /\ Len(snap) >= 2
          /\ snap[2].is_continued /\ snap[2].plan = snap[1].plan
          /\ ~heap[snap[1].plan].is_marked
    /\ live[2].is_continued /\ live[2].plan = live[1].plan
    /\ heap[live[1].plan].is_marked

----------------------------------------------------------------------------
(* The item boxes.  A box holds the widgets of one entry; a widget whose
   value changes calls its change handler at once, whoever wrote the value.
   update() writes the values derived from the entry into the widgets of its
   box, one after the other (at is the next write: 1 first_duration,
   2 last_duration, 3 check_box, 4 continue_check, 5 the end of update()).
   The labels and the disabled flags update() also writes have no handler
   and are left out.  returned counts the handler calls of the box that
   returned at the guard since its last update() began. *)

Box(log, plan) ==
    [is_updating |-> FALSE, at |-> 0, returned |-> 0,
     check_box |-> plan.is_marked, continue_check |-> log.is_continued,
     first_duration |-> plan.first_duration, last_duration |-> plan.last_duration]

BoxesOf(st) == [i \in 1..Len(st.logs) |-> Box(st.logs[i], st.plans[st.logs[i].plan])]

(* update() is called on the boxes of is in turn; a box with is_updating
   set returns at once *)
update(is) == SelectSeq(is, LAMBDA k : ~boxes[k].is_updating)

(* for box in self.log_box.children: box.update(), at the end of update_link *)
EveryBox == [k \in 1..Len(boxes) |-> k]

(* Mutant: no handler looks at is_updating *)
returns_early_never(i) == FALSE

(* if self.is_updating: return *)
returns_early(i) == boxes[i].is_updating

ModelVars == <<logs, plans, previous_logs, undo_stack, redo_stack,
               undo_button, redo_button,
               continue_after_break, break_text, file, pass_ran>>

(* The handler returned at its guard *)
Returned == UNCHANGED ModelVars /\ UNCHANGED <<update_queue, feedback>>

(* The change handlers with the value the widget changed to.  by_update
   tells that the value was written by update(), not by the user. *)
on_check_change(i, new_value, by_update) ==
    IF returns_early(i) THEN Returned
    ELSE /\ LET p == logs[i].plan
                s1 == State(logs, [plans EXCEPT ![p].is_marked = new_value,
                                                ![p].is_mark_set = TRUE])
            IN Commit(IF is_in_list(logs[i]) THEN update_link(s1, previous_logs) ELSE s1)
         /\ HandlerFrame
         /\ Save
         /\ pass_ran' = is_in_list(logs[i])
         /\ update_queue' = update_queue \o
                            (IF is_in_list(logs[i]) THEN update(EveryBox) ELSE <<>>)
         /\ feedback' = (feedback \/ by_update)

on_continue_check_change(i, new_value, by_update) ==
    IF returns_early(i) THEN Returned
    ELSE /\ Commit(update_link(set_is_continued(Live, i, new_value), previous_logs))
         /\ HandlerFrame
         /\ Save
         /\ pass_ran' = TRUE
         /\ update_queue' = update_queue \o update(EveryBox)
         /\ feedback' = (feedback \/ by_update)

on_name_change_to(i, new_value, by_update) ==
    IF returns_early(i) THEN Returned
    ELSE /\ Commit(update_link(State([logs EXCEPT ![i].name = new_value], plans),
                               previous_logs))
         /\ HandlerFrame
         /\ Save
         /\ pass_ran' = TRUE
         /\ update_queue' = update_queue \o update(EveryBox)
         /\ feedback' = (feedback \/ by_update)

on_first_duration_change_to(i, new_value, by_update) ==
    IF returns_early(i) THEN Returned
    ELSE /\ LET s1 == State(logs, [plans EXCEPT ![logs[i].plan].first_duration = new_value])
            IN Commit(IF is_head(logs[i]) THEN update_link(s1, previous_logs) ELSE s1)
         /\ HandlerFrame
         /\ Save
         /\ pass_ran' = is_head(logs[i])
         /\ update_queue' = update_queue \o update(<<i>>) \o
                            (IF is_head(logs[i]) THEN update(EveryBox) ELSE <<>>)
         /\ feedback' = (feedback \/ by_update)

on_last_duration_change_to(i, new_value, by_update) ==
    IF returns_early(i) THEN Returned
    ELSE /\ LET s1 == State(logs, [plans EXCEPT ![logs[i].plan].last_duration = new_value])
            IN Commit(IF is_head(logs[i]) THEN update_link(s1, previous_logs) ELSE s1)
         /\ HandlerFrame
         /\ Save
         /\ pass_ran' = is_head(logs[i])
         /\ update_queue' = update_queue \o update(<<i>>) \o
                            (IF is_head(logs[i]) THEN update(EveryBox) ELSE <<>>)
         /\ feedback' = (feedback \/ by_update)

BoxFrame ==
    /\ UNCHANGED <<presses, load_error>> /\ UNCHANGED ioloop_vars
    /\ UNCHANGED codec_vars /\ UNCHANGED bonus_vars /\ UNCHANGED object_vars
    /\ UNCHANGED suspend_vars

(* The user acts on a widget when no handler is at work.  The mark check
   box and the duration fields of a continued entry are disabled. *)
check_box_clicked(i) ==
    /\ update_queue = <<>>
    /\ ~logs[i].is_continued
    /\ boxes' = [boxes EXCEPT ![i].check_box = ~boxes[i].check_box]
    /\ on_check_change(i, ~boxes[i].check_box, FALSE)
    /\ BoxFrame

continue_check_clicked(i) ==
    /\ update_queue = <<>>
    /\ boxes' = [boxes EXCEPT ![i].continue_check = ~boxes[i].continue_check]
    /\ on_continue_check_change(i, ~boxes[i].continue_check, FALSE)
    /\ BoxFrame

name_typed(i, text) ==
    /\ update_queue = <<>>
    /\ text # logs[i].name
    /\ UNCHANGED boxes
    /\ on_name_change_to(i, text, FALSE)
    /\ BoxFrame

first_duration_typed(i, text) ==
    /\ update_queue = <<>>
    /\ ~logs[i].is_continued
    /\ text # boxes[i].first_duration
    /\ boxes' = [boxes EXCEPT ![i].first_duration = text]
    /\ on_first_duration_change_to(i, text, FALSE)
    /\ BoxFrame

(* update() of the box at the head of the queue begins *)
update_begin ==
    /\ update_queue # <<>>
    /\ LET i == Head(update_queue)
       IN /\ boxes[i].at = 0
          /\ boxes' = [boxes EXCEPT ![i].is_updating = TRUE, ![i].at = 1,
                                    ![i].returned = 0]
    /\ Returned
    /\ BoxFrame

(* The next write of update(); a value that differs from the widget's calls
   the handler of the widget *)
update_write ==
    /\ update_queue # <<>>
    /\ LET i == Head(update_queue)
           box == boxes[i]
           plan == plans[logs[i].plan]
           written(changed) ==
               IF changed /\ returns_early(i) THEN box.returned + 1 ELSE box.returned
       IN /\ box.at \in 1..4
          /\ CASE box.at = 1 ->
                   /\ boxes' = [boxes EXCEPT ![i].first_duration = plan.first_duration,
                                             ![i].at = 2,
                                             ![i].returned =
                                                 written(plan.first_duration # box.first_duration)]
                   /\ IF plan.first_duration # box.first_duration
                      THEN on_first_duration_change_to(i, plan.first_duration, TRUE)
                      ELSE Returned
               [] box.at = 2 ->
                   /\ boxes' = [boxes EXCEPT ![i].last_duration = plan.last_duration,
                                             ![i].at = 3,
                                             ![i].returned =
                                                 written(plan.last_duration # box.last_duration)]
                   /\ IF plan.last_duration # box.last_duration
                      THEN on_last_duration_change_to(i, plan.last_duration, TRUE)
                      ELSE Returned
               [] box.at = 3 ->
                   /\ boxes' = [boxes EXCEPT ![i].check_box = plan.is_marked,
                                             ![i].at = 4,
                                             ![i].returned =
                                                 written(plan.is_marked # box.check_box)]
                   /\ IF plan.is_marked # box.check_box
                      THEN on_check_change(i, plan.is_marked, TRUE)
                      ELSE Returned
               [] box.at = 4 ->
                   /\ boxes' = [boxes EXCEPT ![i].continue_check = logs[i].is_continued,
                                             ![i].at = 5,
                                             ![i].returned =
                                                 written(logs[i].is_continued # box.continue_check)]
                   /\ IF logs[i].is_continued # box.continue_check
                      THEN on_continue_check_change(i, logs[i].is_continued, TRUE)
                      ELSE Returned
    /\ BoxFrame

(* self.is_updating = False, and update() returns *)
update_end ==
    /\ update_queue # <<>>
    /\ LET i == Head(update_queue)
       IN /\ boxes[i].at = 5
          /\ boxes' = [boxes EXCEPT ![i].is_updating = FALSE, ![i].at = 0]
    /\ update_queue' = Tail(update_queue)
    /\ UNCHANGED ModelVars /\ UNCHANGED feedback
    /\ BoxFrame

InitBox ==
    /\ \E prev \in Archives :
           Constructed([i \in 1..2 |-> DocLog("x", NoText, NoText, i - 1, FALSE, DefaultPlan)],
                       prev, TRUE, "")
    /\ ioloop_idle /\ codec_idle /\ bonus_formula = <<>>
    /\ heap = <<>> /\ live = <<>> /\ undo_objects = <<>> /\ redo_objects = <<>>
    /\ boxes = BoxesOf(Live) /\ update_queue = <<>> /\ feedback = FALSE
    /\ suspend_idle

NextBox ==
    \/ \E i \in Positions : check_box_clicked(i)
    \/ \E i \in Positions : continue_check_clicked(i)
    \/ \E n \in Names : name_typed(2, n)
    \/ \E d \in DurationTexts : first_duration_typed(1, d)
    \/ update_begin
    \/ update_write
    \/ update_end

SpecBox == InitBox /\ [][NextBox]_vars

Updating == \E i \in 1..Len(boxes) : boxes[i].is_updating

(* The widgets of box i show the entry *)
Shows(i) == boxes[i] = [Box(logs[i], plans[logs[i].plan]) EXCEPT !.returned = boxes[i].returned]

(* C29: while update() of a box is writing its widgets, no step changes the
   model (no handler sets is_mark_set or is_continued, reconciles or saves)
   or calls update() on further boxes, and the body of a handler never runs
   because update() wrote a widget; is_updating is set only in the box whose
   update() is running, and once every update() has returned it is false in
   every box and the widgets show the entries *)
C29_ReentrancyGuard ==
    /\ [][Updating =>
             /\ UNCHANGED ModelVars
             /\ update_queue' = update_queue \/ update_queue' = Tail(update_queue)]_vars
    /\ [](~feedback)
    /\ [](\A i \in 1..Len(boxes) :
             boxes[i].is_updating =>
                 update_queue # <<>> /\ Head(update_queue) = i /\ boxes[i].at > 0)
    /\ [](update_queue = <<>> =>
             \A i \in 1..Len(boxes) : ~boxes[i].is_updating /\ Shows(i))

(* update() of the second box has returned after two of its writes called
   handlers that returned at the guard *)
C29_Witness ==
    /\ Len(boxes) = 2 /\ update_queue = <<>>
    /\ ~boxes[2].is_updating /\ boxes[2].returned >= 2

----------------------------------------------------------------------------
(* C30: in every reachable state of a controller, logs[i].index == i for
   every position i of the current list (positions are counted from 1 here,
   indexes from 0) *)
C30_IndexIsPosition == \A i \in Positions : logs[i].index = i - 1

(* The handlers keep the index of the entries they find and give each entry
   they append the length of the list as its index; set_logs renumbers *)
IndexKeptByHandlers ==
    [][(\A i \in Positions : logs[i].index = i - 1) =>
           (\A i \in 1..Len(logs') : logs'[i].index = i - 1)]_vars

----------------------------------------------------------------------------
(* The name field of an item box of the planner/logger.  planner_logger.py
   imports debounce and registers the handler itself:
   name.observe(on_name_change, "value"), so the widget's change
   notification calls on_name_change at once.  called holds the
   notifications and executed the runs of the handler, as for the debounced
   functions above. *)

PlannerLoggerName == "planner_logger_name"

name_value_changed(i, text) ==
    /\ Len(called) < MaxCalls
    /\ on_name_change(i, text)
    /\ called' = Append(called, [w |-> PlannerLoggerName, args |-> <<text>>, at |-> clock])
    /\ executed' = Append(executed, [id |-> Len(called) + 1, w |-> PlannerLoggerName,
                                     args |-> <<text>>, at |-> clock,
                                     calls |-> Len(called) + 1])
    /\ UNCHANGED <<counters, callbacks, timeouts, clock>>
    /\ UNCHANGED <<presses, load_error>>
    /\ UNCHANGED codec_vars /\ UNCHANGED bonus_vars /\ UNCHANGED view_vars

InitTyping ==
    \E n \in 1..2 :
        Loaded([i \in 1..n |-> DocLog("x", NoText, NoText, i - 1, i = 2, DefaultPlan)],
               <<>>, TRUE, "")

NextTyping ==
    \/ \E i \in Positions : \E text \in Names : name_value_changed(i, text)
    \/ tick

SpecTyping == InitTyping /\ [][NextTyping]_vars

(* C31: in a burst of edits of a name field (each notification within the
   delay of the one before it) the handler runs for no notification but the
   last, and for that one only after the delay: reconciliation and save run
   once, after the pause *)
C31_NameEditsCoalesced ==
    /\ \A i \in CallIds : InBurst(i) => i \notin ExecutedIds
    /\ \A k \in 1..Len(executed) :
           executed[k].at >= called[executed[k].id].at + delay_seconds

(* Every notification of the name field has run reconciliation and save by
   the time the handler that delivered it returns *)
NameEditsRunAtOnce ==
    /\ ExecutedIds = CallIds
    /\ \A k \in 1..Len(executed) : executed[k].at = called[executed[k].id].at
    /\ pass_ran
    /\ file = save(logs, plans, previous_logs, continue_after_break, break_text)

----------------------------------------------------------------------------
(* A step of Break on a non-empty list: a counted press that appends two
   entries *)
BreakStep == presses' = presses + 1 /\ Len(logs) > 0 /\ Len(logs') = Len(logs) + 2

(* The continuation entry is linked after the entry that was last before
   the break and shares its plan *)
ContinuesInterrupted ==
    LET n == Len(logs)
    IN /\ logs'[n + 2].is_continued
       /\ logs'[n + 2].previous_log = n
       /\ logs'[n].next_log = n + 2
       /\ logs'[n + 2].plan = logs'[n].plan

(* C32: with continue-after-break enabled, the continuation entry Break
   appends has the entry that was last before the break as its previous
   link and shares that entry's plan, whatever the break title is *)
C32_ContinuationJoinsInterrupted ==
    [][(BreakStep /\ continue_after_break) => ContinuesInterrupted]_vars

(* It does so for every break title other than the name of the interrupted
   entry; with that title the continuation entry is linked after the break
   entry and shares the break entry's plan *)
ContinuationJoinsNearestSameName ==
    [][(BreakStep /\ continue_after_break) =>
           IF break_text # Last(logs).name THEN ContinuesInterrupted
           ELSE LET n == Len(logs)
                IN /\ logs'[n + 2].is_continued
                   /\ logs'[n + 2].previous_log = n + 1
                   /\ logs'[n + 2].plan = logs'[n + 1].plan
                   /\ logs'[n + 2].plan # logs'[n].plan
                   /\ logs'[n].next_log = 0]_vars

----------------------------------------------------------------------------
(* The entries of ls up to position n, field by field *)
FieldsUpTo(ls, n) == [i \in 1..n |-> Fields(ls[i])]

(* C33: Break registers exactly one undo snapshot, the list as it was before
   the two appends; one Undo right after a break takes both the break entry
   and the continuation entry away and leaves the entries before them, and
   one Redo brings both back as they were *)
C33_BreakIsOneUndoStep ==
    [][/\ BreakStep =>
              /\ undo_stack' = Append(undo_stack, State(logs, plans))
              /\ redo_stack' = <<>>
       /\ UndoStep =>
              /\ Len(logs') = Len(logs) - 2
              /\ FieldsUpTo(logs', Len(logs')) = FieldsUpTo(logs, Len(logs'))
              /\ Last(redo_stack') = State(logs, plans)
       /\ RedoStep =>
              /\ Len(logs') = Len(logs) + 2
              /\ FieldsUpTo(logs', Len(logs')) =
                     FieldsUpTo(Last(redo_stack).logs, Len(logs'))]_vars

(* A break titled coffee was undone by one Undo: the list holds the one
   entry it held before, and the list of three entries is there to redo *)
C33_Witness ==
    /\ Len(logs) = 1 /\ undo_stack = <<>> /\ Len(redo_stack) = 1
    /\ Len(Last(redo_stack).logs) = 3
    /\ Last(redo_stack).logs[2].name = "coffee"
    /\ Last(redo_stack).logs[3].name = logs[1].name

----------------------------------------------------------------------------
(* The pass, entry by entry: the object graph when the loop of update_link
   has handled the entries 1..k *)
RECURSIVE update_link_upto(_, _, _)
update_link_upto(st, k, prev) ==
    IF k = 0 THEN st ELSE update_link_step(update_link_upto(st, k - 1, prev), k, prev)

(* At its turn entry i is inserted after an entry that has a next_log: the
   splice branch of insert_to_linked_list *)
Splices(st, i, prev) ==
    LET s0 == clear_link_state(update_link_upto(st, i - 1, prev), i)
        same == same_name_logs(s0.logs, i)
    IN /\ same # {}
       /\ s0.logs[i].is_continued
       /\ s0.logs[Max(same)].next_log # 0

(* The lists a handler may hand to update_link in this state: the list
   itself, the list with one name or one continue flag edited (its links are
   those of the pass before), and the snapshots Undo and Redo would restore *)
PassInputs ==
    {Live}
    \cup {State([logs EXCEPT ![i].name = n], plans) : i \in Positions, n \in Names}
    \cup {set_is_continued(Live, i, ~logs[i].is_continued) : i \in Positions}
    \cup {undo_stack[k] : k \in 1..Len(undo_stack)}
    \cup {redo_stack[k] : k \in 1..Len(redo_stack)}

(* C34: in a reconciliation pass over any list a handler can hand to it, an
   entry is only ever inserted after an entry whose next_log is None, so the
   splice branch of insert_to_linked_list is not taken, and the pass leaves
   links that are mutual and within the list *)
C34_NeverSplices ==
    \A st \in PassInputs :
        /\ \A i \in 1..Len(st.logs) : ~Splices(st, i, previous_logs)
        /\ LinksMutual(update_link(st, previous_logs).logs)
        /\ LinksInList(update_link(st, previous_logs).logs)

(* Undo has restored a list with a chain of three entries, and the first
   entry's name can be edited so that the pass meets the old links *)
C34_Witness ==
    /\ redo_stack # <<>>
    /\ Len(logs) = 3
    /\ logs[1].next_log = 2 /\ logs[2].next_log = 3
    /\ logs[3].previous_log = 2

----------------------------------------------------------------------------
(* The pass over st keeps is_mark_set of every plan object, keeps is_marked
   of the plans with a manual mark, and the plans it creates with a manual
   mark are copies of such plans (copy.copy in the is_continued setter) *)
PassKeepsManualMarks(st, prev) ==
    LET r == update_link(st, prev)
    IN /\ Len(r.plans) >= Len(st.plans)
       /\ \A p \in 1..Len(st.plans) :
              /\ r.plans[p].is_mark_set = st.plans[p].is_mark_set
              /\ st.plans[p].is_mark_set => r.plans[p].is_marked = st.plans[p].is_marked
       /\ \A q \in (Len(st.plans) + 1)..Len(r.plans) :
              r.plans[q].is_mark_set => \E p \in 1..Len(st.plans) : st.plans[p] = r.plans[q]

(* The steps in which the user sets a mark, and the steps that bring back or
   replace the whole list *)
ManualMarkStep ==
    \/ \E i \in Positions : Edit(on_check(i))
    \/ Press(on_remove_marks_click)

WholeListStep ==
    \/ UndoStep
    \/ RedoStep
    \/ \E dics \in SetLogsInputs : Press(set_logs(dics))

(* Every manual mark of the list after the step was a manual mark, with the
   same value, before it *)
NoNewManualMark ==
    \A q \in 1..Len(plans') :
        plans'[q].is_mark_set =>
            \E p \in 1..Len(plans) :
                plans[p].is_mark_set /\ plans[p].is_marked = plans'[q].is_marked

(* C35: is_mark_set of a plan becomes true only by a mark toggle of the user
   or by Remove marks: a reconciliation pass over any list a handler can
   hand to it keeps is_mark_set of every plan and is_marked of every plan
   with a manual mark, and no other handler step (rename, continue toggle,
   time and duration edits, +, Break, Clear) adds a manual mark *)
C35_ManualMarkOnlyByUser ==
    /\ [](\A st \in PassInputs : PassKeepsManualMarks(st, previous_logs))
    /\ [][~(ManualMarkStep \/ WholeListStep) => NoNewManualMark]_vars

(* The toggle of entry 1 set a manual mark, and the pass gave entry 2 the
   mark by inheritance without making it manual *)
C35_Witness ==
    /\ Len(logs) >= 2
    /\ ~logs[2].is_continued
    /\ plans[logs[1].plan].is_mark_set /\ plans[logs[1].plan].is_marked
    /\ plans[logs[2].plan].is_marked /\ ~plans[logs[2].plan].is_mark_set

----------------------------------------------------------------------------
(* Marks before and after Remove marks.  The user toggles marks only before
   the first press of Remove marks; continue flags and names are edited at
   any time.  Remove marks is the only press of these sessions and is
   pressed once, so presses = 1 says that Remove marks was pressed and that
   only continue toggles, renames and their reconciliation passes have run
   since. *)

MarkedLogs == 2

InitMarks ==
    \E n \in 1..MarkedLogs :
        Loaded([i \in 1..n |-> DocLog("x", NoText, NoText, i - 1, FALSE, DefaultPlan)],
               <<>>, TRUE, "")

NextMarks ==
    \/ \E i \in Positions : presses = 0 /\ Edit(on_check(i))
    \/ \E i \in Positions : Edit(on_continue_check(i))
    \/ \E i \in Positions : \E n \in Names : Edit(on_name_change(i, n))
    \/ presses = 0 /\ Press(on_remove_marks_click)

SpecMarks == InitMarks /\ [][NextMarks]_vars

NoEntryMarked(ls, ps) == \A i \in 1..Len(ls) : ~ps[ls[i].plan].is_marked

(* C36: once Remove marks was pressed, every entry stays unmarked under
   continue toggles, renames and reconciliation passes *)
C36_RemoveMarksLasts == presses = 1 => NoEntryMarked(logs, plans)

(* Remove marks itself leaves every entry unmarked with a manual mark *)
RemoveMarksClears ==
    [][Press(on_remove_marks_click) =>
          \A i \in 1..Len(logs') :
              /\ ~plans'[logs'[i].plan].is_marked
              /\ plans'[logs'[i].plan].is_mark_set]_vars

(* The marks that come back are those of backup plans: while no entry was
   continued when Remove marks was pressed, the entries stay unmarked *)
BackupsUnmarked == \A i \in Positions : ~plans[logs[i].backup_plan].is_marked

RemoveMarksLastsWithoutBackups ==
    (presses = 1 /\ BackupsUnmarked) => NoEntryMarked(logs, plans)

----------------------------------------------------------------------------
(* The archive begins with the entries of the list st, latest first: what
   Clear leaves when it is pressed on st *)
ArchivedAtFront(st, prev) ==
    /\ Len(prev) >= Len(st.logs)
    /\ \A k \in 1..Len(st.logs) :
           prev[k] = log_dic(st.logs, st.plans, Len(st.logs) + 1 - k)

(* The list is empty because it was cleared: the snapshot Undo would restore
   is the non-empty list that is at the front of the archive *)
ClearedList ==
    /\ logs = <<>>
    /\ undo_stack # <<>>
    /\ Last(undo_stack).logs # <<>>
    /\ ArchivedAtFront(Last(undo_stack), previous_logs)

(* C37: Undo and Redo leave the archive of previous sessions as it is; an
   Undo after Clear brings the cleared entries back into the list, and the
   archive still begins with the copies Clear put there *)
C37_UndoKeepsArchive ==
    [][/\ (UndoStep \/ RedoStep) => previous_logs' = previous_logs
       /\ (UndoStep /\ ClearedList) =>
              /\ Len(logs') = Len(Last(undo_stack).logs)
              /\ FieldsUpTo(logs', Len(logs')) =
                     FieldsUpTo(Last(undo_stack).logs, Len(logs'))
              /\ ArchivedAtFront(Last(undo_stack), previous_logs')]_vars

(* Clear was undone: the list is back, the empty list is on the redo stack
   and the archive begins with the latest entry of the list *)
C37_Witness ==
    /\ Len(logs) >= 2
    /\ redo_stack # <<>>
    /\ Last(redo_stack).logs = <<>>
    /\ Len(previous_logs) >= Len(logs)
    /\ Fields(previous_logs[1]) = Fields(logs[Len(logs)])
    /\ Fields(previous_logs[Len(logs)]) = Fields(logs[1])

----------------------------------------------------------------------------
(* The two stacks together *)
SnapshotsHeld == Len(undo_stack) + Len(redo_stack)

(* C38: between handlers the Undo button is disabled exactly when the undo
   stack is empty and the Redo button exactly when the redo stack is empty,
   and Undo and Redo move a snapshot from one stack to the other: the two
   stacks together hold as many snapshots after as before *)
C38_ButtonsShowStacks ==
    /\ [](/\ undo_button.disabled <=> undo_stack = <<>>
          /\ redo_button.disabled <=> redo_stack = <<>>)
    /\ [][(Edit(on_undo_button_click) \/ Edit(on_redo_button_click)) =>
              Len(undo_stack') + Len(redo_stack') = SnapshotsHeld]_vars

(* Undo has taken the only snapshot: Undo is disabled and Redo enabled *)
C38_Witness ==
    /\ undo_stack = <<>> /\ redo_stack # <<>>
    /\ undo_button.disabled /\ ~redo_button.disabled

----------------------------------------------------------------------------
(* The object graph a new controller builds from the saved file: load,
   parse_log for every item, and the reconciliation pass of update(RESET) *)
Reloaded ==
    LET r == load(content_of(file))
    IN update_link(parse_logs(r.logs), r.previous_logs)

(* The plan entry i has after its continue check box was switched off in the
   object graph st (on_continue_check: the setter, then the pass) *)
PlanAfterSwitchOff(st, i) ==
    LET r == update_link(set_is_continued(st, i, FALSE), previous_logs)
    IN r.plans[r.logs[i].plan]

(* C39: a save/load cycle does not change later behaviour: switching the
   continue flag of a continued entry off gives the entry the same plan
   values whether or not the state was saved and reloaded before *)
C39_ReloadKeepsBackupPlan ==
    \A i \in Positions :
        logs[i].is_continued =>
            PlanAfterSwitchOff(Reloaded, i) = PlanAfterSwitchOff(Live, i)

(* The difference is the backup plan alone: an entry whose backup plan has
   the values of the plan it shares behaves the same after a reload *)
ReloadKeepsSharedPlan ==
    \A i \in Positions :
        (logs[i].is_continued /\ plans[logs[i].backup_plan] = plans[logs[i].plan]) =>
            PlanAfterSwitchOff(Reloaded, i) = PlanAfterSwitchOff(Live, i)

----------------------------------------------------------------------------
(* The suspend flags.  A handler is followed call by call through the
   controller and the item boxes, exceptions included: the state of the
   handler at work is a record w of the object graph (st), the item boxes,
   the two flags (summary, link), the number of runs of
   update_summary_and_save past its guard (runs), whether update_link ran
   (pass), the content of the file, and whether an exception is on its way
   out of the handler (raised).  An exception leaves a handler registered
   with on_click or observe without ending the session: what was written
   before it stays.

   float("nan") is a number: parse_duration gives nan for the text "nan",
   every sum and difference with it is nan, and duration_str(nan) raises
   ValueError at int(nan). *)

NotANumber == <<"n", "a", "n">>

(* update() of the box of entry i raises: time_diff_last is nan, i.e. the
   tail has a start and an end and the last duration of the plan is nan *)
UpdateRaises(st, i) ==
    LET t == st.logs[tail(st.logs, i)]
    IN /\ st.plans[st.logs[i].plan].last_duration = NotANumber
       /\ start(t) # None /\ end(t) # None

(* update_summary_and_save raises before save(): effective_duration of a
   plan whose last duration is nan is nan, and so is the total shown *)
SummaryRaises(st) ==
    \E i \in 1..Len(st.logs) : st.plans[st.logs[i].plan].last_duration = NotANumber

(* PlannerLoggerItemBox.update(): the widgets are written before time_diffs
   is formatted; an exception leaves is_updating set *)
box_update(w, i) ==
    IF w.boxes[i].is_updating THEN w
    ELSE [w EXCEPT !.boxes[i] = [Box(w.st.logs[i], w.st.plans[w.st.logs[i].plan])
                                    EXCEPT !.is_updating = UpdateRaises(w.st, i)],
                   !.raised = UpdateRaises(w.st, i)]

(* for box in self.log_box.children: box.update() *)
RECURSIVE update_boxes(_, _)
update_boxes(w, k) ==
    IF k > Len(w.boxes) \/ w.raised THEN w
    ELSE update_boxes(box_update(w, k), k + 1)

(* update_link with its guard: suspend_link_update is set for the pass and
   the update of the boxes, and reset after them *)
update_link_guarded(w) ==
    IF w.link THEN w
    ELSE LET w1 == [w EXCEPT !.link = TRUE, !.pass = TRUE,
                             !.st = update_link(w.st, previous_logs)]
             w2 == update_boxes(w1, 1)
         IN IF w2.raised THEN w2 ELSE [w2 EXCEPT !.link = FALSE]

(* update_summary_and_save with its guard; save() is its last statement *)
update_summary_and_save(w) ==
    IF w.summary THEN w
    ELSE IF SummaryRaises(w.st) THEN [w EXCEPT !.runs = @ + 1, !.raised = TRUE]
    ELSE [w EXCEPT !.runs = @ + 1,
                   !.file = save(w.st.logs, w.st.plans, previous_logs,
                                 continue_after_break, break_text)]

(* A statement that follows a call is reached only if the call returned *)
Then(w, next(_)) == IF w.raised THEN w ELSE next(w)

(* on_check of box i with the new value of the check box *)
on_check_guarded(w, i, new_value) ==
    IF w.boxes[i].is_updating THEN w
    ELSE LET p == w.st.logs[i].plan
             w1 == [w EXCEPT !.st.plans[p].is_marked = new_value,
                             !.st.plans[p].is_mark_set = TRUE]
             w2 == IF is_in_list(w1.st.logs[i]) THEN update_link_guarded(w1) ELSE w1
         IN Then(w2, update_summary_and_save)

on_continue_check_guarded(w, i, new_value) ==
    IF w.boxes[i].is_updating THEN w
    ELSE LET w1 == [w EXCEPT !.st = set_is_continued(w.st, i, new_value)]
         IN Then(update_link_guarded(w1), update_summary_and_save)

on_last_duration_change_guarded(w, i, new_text) ==
    IF w.boxes[i].is_updating THEN w
    ELSE LET p == w.st.logs[i].plan
             w1 == [w EXCEPT !.st.plans[p].last_duration = new_text]
             w2 == box_update(w1, i)
             w3 == IF ~w2.raised /\ is_head(w2.st.logs[i])
                   THEN update_link_guarded(w2) ELSE w2
         IN Then(w3, update_summary_and_save)

(* item_box.check_box.value = False for the boxes from k on: a check box
   whose value changes calls on_check *)
RECURSIVE reset_check_boxes(_, _)
reset_check_boxes(w, k) ==
    IF k > Len(w.boxes) \/ w.raised THEN w
    ELSE reset_check_boxes(
             IF w.boxes[k].check_box
             THEN on_check_guarded([w EXCEPT !.boxes[k].check_box = FALSE], k, FALSE)
             ELSE w,
             k + 1)

(* update(UpdateType.REMOVE_MARKS) *)
update_remove_marks(w) ==
    LET w1 == reset_check_boxes([w EXCEPT !.summary = TRUE], 1)
        w2 == IF w1.raised THEN w1 ELSE [w1 EXCEPT !.summary = FALSE]
    IN Then(Then(w2, update_link_guarded), update_summary_and_save)

(* The handler begins in the current state and leaves what it has written *)
Begin ==
    [st |-> Live, boxes |-> boxes, summary |-> suspend_summary_update,
     link |-> suspend_link_update, runs |-> 0, pass |-> FALSE, file |-> file,
     raised |-> FALSE]

Leave(w) ==
    /\ Commit(w.st)
    /\ boxes' = w.boxes
    /\ suspend_summary_update' = w.summary
    /\ suspend_link_update' = w.link
    /\ summary_runs' = w.runs
    /\ pass_ran' = w.pass
    /\ file' = w.file
    /\ UNCHANGED <<load_error, update_queue, feedback>>
    /\ UNCHANGED ioloop_vars /\ UNCHANGED codec_vars /\ UNCHANGED bonus_vars
    /\ UNCHANGED object_vars

(* The user clicks the mark check box or the continue check box of box i,
   or types a last duration into it *)
mark_toggled(i) ==
    /\ ~logs[i].is_continued
    /\ Leave(on_check_guarded([Begin EXCEPT !.boxes[i].check_box = ~boxes[i].check_box],
                              i, ~boxes[i].check_box))
    /\ HandlerFrame /\ UNCHANGED presses

continue_toggled(i) ==
    /\ Leave(on_continue_check_guarded(
                 [Begin EXCEPT !.boxes[i].continue_check = ~boxes[i].continue_check],
                 i, ~boxes[i].continue_check))
    /\ HandlerFrame /\ UNCHANGED presses

last_duration_entered(i, new_text) ==
    /\ ~logs[i].is_continued
    /\ new_text # boxes[i].last_duration
    /\ Leave(on_last_duration_change_guarded(
                 [Begin EXCEPT !.boxes[i].last_duration = new_text], i, new_text))
    /\ HandlerFrame /\ UNCHANGED presses

(* on_remove_marks_click *)
remove_marks_pressed ==
    /\ presses < MaxUndo /\ presses' = presses + 1
    /\ register_undo(TRUE)
    /\ Leave(update_remove_marks(
                 [Begin EXCEPT !.st.plans =
                     [p \in 1..Len(plans) |->
                         IF \E i \in Positions : logs[i].plan = p
                         THEN [plans[p] EXCEPT !.is_marked = FALSE, !.is_mark_set = TRUE]
                         ELSE plans[p]]]))
    /\ UNCHANGED <<previous_logs, continue_after_break, break_text>>

EnteredDurations == {<<"2", "h">>, NotANumber}

(* Two entries of one name with start and end times; the second may continue
   the first *)
InitSuspend ==
    /\ \E c \in BOOLEAN :
           Constructed(<<DocLog("x", 9 * 60, 10 * 60, 0, FALSE, DefaultPlan),
                         DocLog("x", 10 * 60, 11 * 60, 1, c, DefaultPlan)>>,
                       <<>>, TRUE, "")
    /\ ioloop_idle /\ codec_idle /\ bonus_formula = <<>>
    /\ heap = <<>> /\ live = <<>> /\ undo_objects = <<>> /\ redo_objects = <<>>
    /\ boxes = BoxesOf(Live) /\ update_queue = <<>> /\ feedback = FALSE
    /\ suspend_idle

NextSuspend ==
    \/ \E i \in Positions : mark_toggled(i)
    \/ continue_toggled(2)
    \/ \E d \in EnteredDurations : last_duration_entered(1, d)
    \/ undo_stack = <<>> /\ remove_marks_pressed

SpecSuspend == InitSuspend /\ [][NextSuspend]_vars

(* C40: Remove marks runs the summary and the save exactly once, after all
   check boxes were reset, and between handlers suspend_summary_update and
   suspend_link_update are both false *)
C40_SuspendFlagsClear ==
    /\ [](~suspend_summary_update /\ ~suspend_link_update)
    /\ [][remove_marks_pressed =>
              /\ summary_runs' = 1
              /\ \A i \in 1..Len(boxes') : ~boxes'[i].check_box]_vars

(* No duration of the list is nan and no box was left in update() *)
NoNaN ==
    /\ \A p \in 1..Len(plans) : plans[p].last_duration # NotANumber
    /\ \A i \in 1..Len(boxes) : ~boxes[i].is_updating

(* While no handler has raised, the flags are clear between handlers and
   Remove marks runs the summary once, with every check box reset, and
   saves the list *)
SuspendFlagsClearWithoutException ==
    /\ []((\A i \in 1..Len(boxes) : ~boxes[i].is_updating) =>
              ~suspend_summary_update /\ ~suspend_link_update)
    /\ [][(remove_marks_pressed /\ NoNaN) =>
              /\ summary_runs' = 1
              /\ \A i \in 1..Len(boxes') : ~boxes'[i].check_box
              /\ ~suspend_summary_update' /\ ~suspend_link_update'
              /\ file' = save(logs', plans', previous_logs', continue_after_break',
                              break_text')]_vars

============================================================================
